---- MODULE Spec2Model ----
(***************************************************************************)
(* The ai-fitness application: the token codec (generateToken /            *)
(* verifyToken), the credential hasher, the request gate (middleware), the *)
(* auth endpoints over the User collection, the program and AI routes      *)
(* over the Program collection, and the client's auth context, its guards  *)
(* and the form hooks.                                                     *)
(*                                                                         *)
(* Token times are NumericDates, whole seconds, as jsonwebtoken counts     *)
(* them; wall-clock times are milliseconds, as Date.now() counts them.     *)
(* A JWT is modelled by what jsonwebtoken puts in it and checks on it: the *)
(* payload with iat and exp, and the key that signed it.  Paths, e-mails,  *)
(* names and passwords are strings, and startsWith, includes, toLowerCase, *)
(* trim and the regular expressions work on their characters.              *)
(***************************************************************************)
EXTENDS Integers, Sequences, FiniteSets, TLC

VARIABLES
  now,       \* request gate: the server clock, in seconds
  req,       \* request gate: the request being answered
  res,       \* request gate: the middleware's answer
  verified,  \* request gate: the handler's verifyToken call
  wall,      \* token codec: Date.now(), in milliseconds
  issued,    \* token codec: the last generateToken call
  checked,   \* token codec: the last verifyToken call
  compared,  \* credential hasher: the last hash-and-compare
  clock,     \* auth endpoints: the server clock, in seconds
  users,     \* auth endpoints: the User collection
  inflight,  \* auth endpoints: requests between two awaits
  resp,      \* auth endpoints: the response the last step sent, if any
  jar,       \* auth endpoints: the auth-token cookie last set for the client
  loggedOut, \* auth endpoints: the client has logged that cookie out
  programs,  \* program endpoints: the Program collection
  userPrograms, \* program endpoints: the programs array of each account
  authState, \* client: the state of AuthProvider
  formState, \* client: the state of the form hooks
  returned,  \* client: what the last call of an authentication function returned
  pending,   \* provider: the calls of the auth context that await their fetch
  session,   \* provider: the browser holds an auth-token cookie
  deps,      \* provider: the dependencies the guards' effect last ran with
  pushes,    \* provider: the router.push calls of the last step
  queried    \* program endpoints: the collections the last step read or wrote

gateVars == <<now, req, res, verified>>

tokenVars == <<wall, issued, checked>>

hashVars == <<compared>>

authVars == <<clock, users, inflight, resp, jar, loggedOut>>

programVars == <<programs, userPrograms>>

clientVars == <<authState, formState, returned>>

providerVars == <<pending, session, deps, pushes>>

apiVars == <<queried>>

vars ==
  <<gateVars, tokenVars, hashVars, authVars, programVars, clientVars, providerVars,
    apiVars>>

\* what the steps of each component leave alone
notGate ==
  <<tokenVars, hashVars, authVars, programVars, clientVars, providerVars, apiVars>>

notToken ==
  <<gateVars, hashVars, authVars, programVars, clientVars, providerVars, apiVars>>

notHash ==
  <<gateVars, tokenVars, authVars, programVars, clientVars, providerVars, apiVars>>

notAuth ==
  <<gateVars, tokenVars, hashVars, programVars, clientVars, providerVars, apiVars>>

notPrograms ==
  <<gateVars, tokenVars, hashVars, users, jar, loggedOut, clientVars, providerVars>>

notClient ==
  <<gateVars, tokenVars, hashVars, authVars, programVars, providerVars, apiVars>>

notProvider ==
  <<gateVars, tokenVars, hashVars, authVars, programVars, formState, apiVars>>

----------------------------------------------------------------------------
(* Bounds of the model *)

\* days the request gate's clock runs
MaxTime == 8

\* last second at which the gate's tokens were issued
MaxIssue == 0

\* half seconds the token codec's clock is sampled around an instant
MaxHalfSec == 3

\* accounts the User collection holds at most
MaxUsers == 2

\* requests the auth endpoints handle at once
MaxInflight == 2

\* token lifetimes the auth endpoints' clock runs
MaxLifetimes == 1

\* calls of the auth context that await their fetch at once
MaxPending == 2

\* documents the Program collection holds at most
MaxPrograms == 3

----------------------------------------------------------------------------
(* lib/auth: token codec *)

\* process.env.JWT_SECRET, set (the module throws at load time otherwise)
JWT_SECRET == "server-secret"

\* a key the server does not hold
OtherSecret == "other-secret"

\* expiresIn: '7d', which jsonwebtoken turns into seconds
expiresIn == 7 * 24 * 60 * 60

\* Math.floor(Date.now() / 1000)
NumericDate(ms) == ms \div 1000

null == [kind |-> "null"]

UserIds == {"u1", "u2"}

\* Omit<JWTPayload, 'iat' | 'exp'> of an account
claimsOf(u) == [userId |-> u, email |-> u \o "@b.com", name |-> "N" \o u]

\* jwt.sign(payload, secret, {expiresIn}) at time t
jwt_sign(payload, secret, t) ==
  [kind    |-> "jwt",
   payload |-> [userId |-> payload.userId, email |-> payload.email,
                name |-> payload.name, iat |-> t, exp |-> t + expiresIn],
   key     |-> secret]

\* generateToken that puts the e-mail where the name belongs
generateToken_misnamed(payload, t) ==
  jwt_sign([payload EXCEPT !.name = payload.email], JWT_SECRET, t)

generateToken(payload, t) == jwt_sign(payload, JWT_SECRET, t)

\* jwt.verify that lets a token live through its expiry second
jwt_verify_late(token, secret, t) ==
  IF token.kind # "jwt"
    THEN [threw |-> TRUE, value |-> "JsonWebTokenError: jwt malformed"]
  ELSE IF token.key # secret
    THEN [threw |-> TRUE, value |-> "JsonWebTokenError: invalid signature"]
  ELSE IF t > token.payload.exp
    THEN [threw |-> TRUE, value |-> "TokenExpiredError: jwt expired"]
  ELSE [threw |-> FALSE, value |-> token.payload]

\* jwt.verify(token, secret) at time t: the decoded payload, or a throw
jwt_verify(token, secret, t) ==
  IF token.kind # "jwt"
    THEN [threw |-> TRUE, value |-> "JsonWebTokenError: jwt malformed"]
  ELSE IF token.key # secret
    THEN [threw |-> TRUE, value |-> "JsonWebTokenError: invalid signature"]
  ELSE IF t >= token.payload.exp
    THEN [threw |-> TRUE, value |-> "TokenExpiredError: jwt expired"]
  ELSE [threw |-> FALSE, value |-> token.payload]

\* verifyToken with the try/catch left out: the throw reaches the caller
verifyToken_nocatch(token, t) == jwt_verify(token, JWT_SECRET, t)

\* verifyToken that looks up whether the session was logged out
verifyToken_revocable(token, t) ==
  LET decoded == jwt_verify(token, JWT_SECRET, t)
  IN  IF decoded.threw \/ (loggedOut /\ token = jar)
        THEN [threw |-> FALSE, value |-> null]
      ELSE decoded

verifyToken(token, t) ==
  LET decoded == jwt_verify(token, JWT_SECRET, t)
  IN  IF decoded.threw THEN [threw |-> FALSE, value |-> null]
      ELSE decoded

----------------------------------------------------------------------------
(* The values a request can carry *)

\* request.cookies.get('auth-token')?.value
NoCookie == [kind |-> "undefined"]

EmptyCookie == [kind |-> "empty"]

Malformed == [kind |-> "malformed"]

IssueTimes == 0..MaxIssue

\* tokens the server issued, and tokens forged with another key
SignedTokens ==
  {generateToken(claimsOf(u), t) : u \in UserIds, t \in IssueTimes}
    \cup {jwt_sign(claimsOf("u1"), OtherSecret, t) : t \in IssueTimes}

Tokens == SignedTokens \cup {Malformed}

CookieValues == Tokens \cup {NoCookie, EmptyCookie}

\* JavaScript truthiness of the cookie value: undefined and '' are falsy
truthy(token) == token.kind \notin {"undefined", "empty"}

HeaderNames == {"x-user-id", "x-user-email", "x-user-name"}

Absent == "(absent)"

NoHeaders == [h \in HeaderNames |-> Absent]

\* a client may send the identity headers itself
SpoofedHeaders == [NoHeaders EXCEPT !["x-user-id"] = "u2"]

HeaderValues == {NoHeaders, SpoofedHeaders}

Paths ==
  {"/", "/about", "/profile", "/generate-program", "/api/ai/workout",
   "/api/programs", "/api/programs/export.csv", "/api/user/profile",
   "/api/auth/me", "/auth/login", "/auth/register", "/_next/data"}

Requests ==
  [pathname : Paths, cookie : CookieValues, headers : HeaderValues]

----------------------------------------------------------------------------
(* middleware.ts: the request gate *)

startsWith(s, prefix) ==
  Len(prefix) <= Len(s) /\ SubSeq(s, 1, Len(prefix)) = prefix

includes(s, ch) == \E i \in 1..Len(s) : SubSeq(s, i, i) = ch

protectedRoutes ==
  <<"/generate-program", "/profile", "/api/ai", "/api/programs", "/api/user",
    "/api/auth/me">>

publicRoutes ==
  <<"/", "/api/auth/login", "/api/auth/register", "/api/auth/logout",
    "/api/auth/me", "/auth/login", "/auth/register">>

protectedApiRoutes == <<"/api/ai", "/api/programs", "/api/user">>

isStaticOrInternal(pathname) ==
  \/ startsWith(pathname, "/_next")
  \/ startsWith(pathname, "/static")
  \/ includes(pathname, ".")
  \/ startsWith(pathname, "/favicon.ico")

isPublicRoute(pathname) ==
  \E i \in DOMAIN publicRoutes :
    pathname = publicRoutes[i] \/ startsWith(pathname, publicRoutes[i])

isProtectedRoute(pathname) ==
  \E i \in DOMAIN protectedRoutes : startsWith(pathname, protectedRoutes[i])

isProtectedApiRoute(pathname) ==
  \E i \in DOMAIN protectedApiRoutes :
    startsWith(pathname, protectedApiRoutes[i])

NoQuery == [callbackUrl |-> Absent]

\* NextResponse.next(): the request goes on to its handler
NextResponse_next(headers, tokenRead) ==
  [kind |-> "next", status |-> 200, body |-> Absent, location |-> Absent,
   query |-> NoQuery, requestHeaders |-> headers, deleteCookie |-> FALSE,
   tokenRead |-> tokenRead]

\* NextResponse.json({ error }, { status })
NextResponse_json(error, status) ==
  [kind |-> "json", status |-> status, body |-> error, location |-> Absent,
   query |-> NoQuery, requestHeaders |-> NoHeaders, deleteCookie |-> FALSE,
   tokenRead |-> TRUE]

\* NextResponse.redirect(url), response.cookies.delete when asked
NextResponse_redirect(location, query, deleteCookie) ==
  [kind |-> "redirect", status |-> 307, body |-> Absent,
   location |-> location, query |-> query, requestHeaders |-> NoHeaders,
   deleteCookie |-> deleteCookie, tokenRead |-> TRUE]

\* an exception that leaves the middleware: no response is produced
Unhandled(tokenRead) ==
  [kind |-> "exception", status |-> 500, body |-> Absent, location |-> Absent,
   query |-> NoQuery, requestHeaders |-> NoHeaders, deleteCookie |-> FALSE,
   tokenRead |-> tokenRead]

\* middleware, from "Get token from cookie" to the final NextResponse.next()
gate(request, t) ==
  LET pathname == request.pathname
      token    == request.cookie
      guarded  == isProtectedRoute(pathname) \/ isProtectedApiRoute(pathname)
  IN
  IF ~truthy(token) /\ guarded
    THEN IF isProtectedApiRoute(pathname)
           THEN NextResponse_json("Authentication required", 401)
           ELSE NextResponse_redirect("/auth/login",
                                      [callbackUrl |-> pathname], FALSE)
  ELSE IF truthy(token)
    THEN LET payload == verifyToken(token, t)
         IN
         IF payload.threw
           THEN Unhandled(TRUE)
         ELSE IF payload.value = null /\ guarded
           THEN IF isProtectedApiRoute(pathname)
                  THEN NextResponse_json("Invalid or expired token", 401)
                  ELSE NextResponse_redirect("/auth/login", NoQuery, TRUE)
         ELSE IF payload.value # null /\ isProtectedApiRoute(pathname)
           THEN NextResponse_next(
                  [request.headers EXCEPT
                     !["x-user-id"]    = payload.value.userId,
                     !["x-user-email"] = payload.value.email,
                     !["x-user-name"]  = payload.value.name], TRUE)
         ELSE IF /\ payload.value # null
                 /\ \/ startsWith(pathname, "/auth/login")
                    \/ startsWith(pathname, "/sign-up")
           THEN NextResponse_redirect("/profile", NoQuery, FALSE)
         ELSE NextResponse_next(request.headers, TRUE)
  ELSE NextResponse_next(request.headers, TRUE)

\* middleware without the early return for public routes
middleware_nopublic(request, t) ==
  IF isStaticOrInternal(request.pathname)
    THEN NextResponse_next(request.headers, FALSE)
  ELSE gate(request, t)

middleware(request, t) ==
  IF isStaticOrInternal(request.pathname)
    THEN NextResponse_next(request.headers, FALSE)
  ELSE IF isPublicRoute(request.pathname) \/ request.pathname = "/api/auth/me"
    THEN NextResponse_next(request.headers, FALSE)
  ELSE gate(request, t)

----------------------------------------------------------------------------
(* State machine *)

None == [kind |-> "none"]

\* the request as the server received it at time t
Received(request, t) ==
  [kind |-> "request", pathname |-> request.pathname,
   cookie |-> request.cookie, headers |-> request.headers, at |-> t]

GateInit ==
  /\ now = 0
  /\ req = None
  /\ res = None
  /\ verified = None

TokenInit ==
  /\ wall = 0
  /\ issued = None
  /\ checked = None

HashInit == compared = None

AuthInit ==
  /\ clock = 0
  /\ users = {}
  /\ inflight = [slot \in 1..MaxInflight |-> None]
  /\ resp = None
  /\ jar = NoCookie
  /\ loggedOut = FALSE

ProgramInit ==
  /\ programs = {}
  /\ userPrograms = [u \in UserIds |-> {}]
  /\ queried = {}

\* useState of AuthProvider and of the two form hooks
ClientInit ==
  /\ authState = [user |-> null, isLoading |-> TRUE, isAuthenticated |-> FALSE]
  /\ formState = [form \in {"auth", "profile"} |->
                    [isLoading |-> FALSE, error |-> "(null)", success |-> FALSE]]
  /\ returned = None

\* no call of the auth context is under way and no guard is mounted
ProviderInit ==
  /\ pending = {}
  /\ session = FALSE
  /\ deps = <<FALSE, TRUE>>
  /\ pushes = <<>>

Init ==
  /\ GateInit /\ TokenInit /\ HashInit /\ AuthInit /\ ProgramInit
  /\ ClientInit /\ ProviderInit

\* a day passes
Tick ==
  /\ now < MaxTime * 24 * 60 * 60
  /\ now' = now + 24 * 60 * 60
  /\ UNCHANGED <<req, res, verified, notGate>>

\* a request arrives and the middleware answers it
Middleware ==
  \E request \in Requests :
    /\ req' = Received(request, now)
    /\ res' = middleware(request, now)
    /\ verified' = None
    /\ UNCHANGED <<now, notGate>>

\* the handler a request was forwarded to calls verifyToken on its cookie
HandlerVerify ==
  /\ req # None
  /\ res.kind = "next"
  /\ truthy(req.cookie)
  /\ verified = None
  /\ verified' = [kind |-> "verified", token |-> req.cookie, at |-> now,
                  result |-> verifyToken(req.cookie, now)]
  /\ UNCHANGED <<now, req, res, notGate>>

Next == Tick \/ Middleware \/ HandlerVerify

Spec == Init /\ [][Next]_vars

----------------------------------------------------------------------------
(* Token codec on its own: generateToken and verifyToken at wall-clock times *)

SevenDaysMs == 7 * 24 * 60 * 60 * 1000

\* the instants at which the codec is called: around the start, and around
\* seven days later
WallTimes ==
  {k * 500 : k \in 0..MaxHalfSec}
    \cup {SevenDaysMs - 1000 + k * 500 : k \in 0..(MaxHalfSec + 2)}

ClaimSets ==
  [userId : UserIds, email : {"a@b.com", "c@d.org"}, name : {"Al", "Bo"}]

\* time passes
Advance ==
  \E t \in WallTimes :
    /\ t > wall
    /\ wall' = t
    /\ UNCHANGED <<issued, checked, notToken>>

\* generateToken(payload) is called
Issue ==
  \E c \in ClaimSets :
    /\ issued' = [kind |-> "issued", claims |-> c, at |-> wall,
                  token |-> generateToken(c, NumericDate(wall))]
    /\ checked' = None
    /\ UNCHANGED <<wall, notToken>>

\* verifyToken(token) is called on the token issued last
Check ==
  /\ issued # None
  /\ checked' = [kind |-> "checked", token |-> issued.token, at |-> wall,
                 result |-> verifyToken(issued.token, NumericDate(wall))]
  /\ UNCHANGED <<wall, issued, notToken>>

TokenNext == Advance \/ Issue \/ Check

SpecToken == Init /\ [][TokenNext]_vars

----------------------------------------------------------------------------
(* lib/auth: credential hasher *)

saltRounds == 12

\* the bytes of the password that bcrypt keys its cipher with: the first 72
bcrypt_key(password) ==
  IF Len(password) > 72 THEN SubSeq(password, 1, 72) ELSE password

\* bcrypt.hash(password, rounds) with the salt that genSalt drew
bcrypt_hash(password, rounds, salt) ==
  [kind |-> "bcrypt", rounds |-> rounds, salt |-> salt,
   digest |-> <<bcrypt_key(password), salt, rounds>>]

\* bcrypt.compare(password, hash): hashes again with the salt and cost
\* embedded in the hash; false for a string that is no bcrypt hash
bcrypt_compare(password, hashed) ==
  IF hashed.kind # "bcrypt" THEN FALSE
  ELSE bcrypt_hash(password, hashed.rounds, hashed.salt).digest = hashed.digest

\* hashPassword that hands the password back
hashPassword_plain(password, salt) ==
  [kind |-> "plain", rounds |-> 0, salt |-> salt, digest |-> password]

hashPassword(password, salt) == bcrypt_hash(password, saltRounds, salt)

comparePassword(password, hashedPassword) ==
  bcrypt_compare(password, hashedPassword)

Salts == {"salt1", "salt2", "salt3"}

\* 72 characters
Long72 ==
  "correct-horse-battery-staple-correct-horse-battery-staple-correct-horse-"

Passwords ==
  {"secret1", "secret2", "Secret1", "secret12", Long72 \o "x", Long72 \o "y"}

\* a password is hashed, and a password is compared with the hash
HashAndCompare ==
  \E p \in Passwords, q \in Passwords, salt \in Salts :
    /\ compared' = [kind |-> "compared", password |-> p, hashedOf |-> q,
                    hashedPassword |-> hashPassword(q, salt),
                    result |-> comparePassword(p, hashPassword(q, salt))]
    /\ UNCHANGED notHash

HashNext == HashAndCompare

SpecHash == Init /\ [][HashNext]_vars

----------------------------------------------------------------------------
(* JavaScript strings *)

UpperChars == "ABCDEFGHIJKLMNOPQRSTUVWXYZ"

LowerChars == "abcdefghijklmnopqrstuvwxyz"

Digits == "0123456789"

charAt(s, i) == SubSeq(s, i, i)

CharsOf(s) == {charAt(s, i) : i \in 1..Len(s)}

\* the character class \w
WordChars == CharsOf(UpperChars) \cup CharsOf(LowerChars) \cup CharsOf(Digits) \cup {"_"}

lowerChar(c) ==
  IF c \in CharsOf(UpperChars)
    THEN charAt(LowerChars, CHOOSE i \in 1..26 : charAt(UpperChars, i) = c)
    ELSE c

RECURSIVE toLowerCase(_)
toLowerCase(s) ==
  IF s = "" THEN "" ELSE lowerChar(charAt(s, 1)) \o toLowerCase(SubSeq(s, 2, Len(s)))

RECURSIVE trimStart(_)
trimStart(s) ==
  IF s # "" /\ charAt(s, 1) = " " THEN trimStart(SubSeq(s, 2, Len(s))) ELSE s

RECURSIVE trimEnd(_)
trimEnd(s) ==
  IF s # "" /\ charAt(s, Len(s)) = " " THEN trimEnd(SubSeq(s, 1, Len(s) - 1)) ELSE s

trim(s) == trimEnd(trimStart(s))

\* positions of the character c in s
indexesOf(s, c) == {i \in 1..Len(s) : charAt(s, i) = c}

\* s matches \w+([.-]?\w+)* : runs of word characters joined by single
\* dots or hyphens
dottedWords(s) ==
  /\ s # ""
  /\ \A i \in 1..Len(s) : charAt(s, i) \in WordChars \cup {".", "-"}
  /\ charAt(s, 1) \in WordChars
  /\ charAt(s, Len(s)) \in WordChars
  /\ \A i \in 1..(Len(s) - 1) :
       charAt(s, i) \in WordChars \/ charAt(s, i + 1) \in WordChars

\* /^\w+([.-]?\w+)*@\w+([.-]?\w+)*(\.\w{2,3})+$/.test(email)
emailRegex_test(email) ==
  /\ Cardinality(indexesOf(email, "@")) = 1
  /\ LET at     == CHOOSE i \in indexesOf(email, "@") : TRUE
         local  == SubSeq(email, 1, at - 1)
         domain == SubSeq(email, at + 1, Len(email))
         dots   == indexesOf(domain, ".")
     IN  /\ dottedWords(local)
         /\ dottedWords(domain)
         /\ dots # {}
         /\ LET last == CHOOSE i \in dots : \A j \in dots : j <= i
            IN  /\ last > 1
                /\ Len(domain) - last \in {2, 3}
                /\ \A i \in (last + 1)..Len(domain) : charAt(domain, i) \in WordChars

----------------------------------------------------------------------------
(* models/User: the account schema and its collection *)

\* an email path without lowercase: true
emailSetter_asis(email) == trim(email)

\* email: { lowercase: true, trim: true }, applied on save and on update
emailSetter(email) == trim(toLowerCase(email))

\* name: { trim: true }
nameSetter(name) == trim(name)

\* validators of the schema: match on email, required and maxlength on name
schemaValid(email, name) ==
  /\ emailRegex_test(email)
  /\ name # ""
  /\ Len(name) <= 50

\* User.findOne({ email })
findByEmail(store, email) == {u \in store : u.email = email}

\* User.findById(id)
findById(store, id) == {u \in store : u.id = id}

\* email: { unique: true }: the index refuses a second document with the key
duplicateKey(store, email, self) ==
  \E u \in store : u.email = email /\ u.id # self

\* the _id of a new document
newId(store) == "u" \o ToString(Cardinality(store) + 1)

----------------------------------------------------------------------------
(* Responses of the route handlers *)

\* NextResponse.json({ error }, { status })
ErrorResponse(status, error) ==
  [status |-> status, success |-> FALSE, error |-> error, userFields |-> {},
   setCookie |-> NoCookie, clearCookie |-> FALSE]

\* NextResponse.json({ success: true, user, ... }, { status }), with the
\* cookie it sets
UserResponse(status, userFields, cookie) ==
  [status |-> status, success |-> TRUE, error |-> Absent,
   userFields |-> userFields, setCookie |-> cookie, clearCookie |-> FALSE]

\* what the model records of a request and its response
Sent(endpoint, body, cookie, t, response, held, created, decoded) ==
  [kind |-> "response", endpoint |-> endpoint, body |-> body,
   cookie |-> cookie, at |-> t, response |-> response, heldBefore |-> held,
   created |-> created, decoded |-> decoded]

----------------------------------------------------------------------------
(* POST /api/auth/register *)

RegisterBody(email, password, name, confirmPassword) ==
  [email |-> email, password |-> password, name |-> name,
   confirmPassword |-> confirmPassword]

\* 51 characters
Name51 == "Maximilian-Alexander-Bartholomew-Fitzgerald-Smith-X"

\* request bodies; '' stands for a field that was not sent
RegisterBodies ==
  {RegisterBody("a@b.com", "secret1", "Al", ""),
   RegisterBody("A@B.com", "secret1", " Al ", "secret1"),
   RegisterBody("c@d.org", "secret1", "Bo", ""),
   RegisterBody("", "secret1", "Al", ""),
   RegisterBody("nope", "secret1", "Al", ""),
   RegisterBody("a@b.com", "abc", "Al", ""),
   RegisterBody("a@b.com", "secret1", "Al", "secret2"),
   RegisterBody("c@d.org", "secret1", "A ", ""),
   RegisterBody("c@d.org", "secret1", Name51, "")}

\* the handler up to and including User.findOne: the response it returns
\* there, or None when it goes on to create the account
registerCheck(store, body) ==
  IF body.email = "" \/ body.password = "" \/ body.name = ""
    THEN ErrorResponse(400, "Email, password, and name are required")
  ELSE IF ~emailRegex_test(body.email)
    THEN ErrorResponse(400, "Please enter a valid email address")
  ELSE IF Len(body.password) < 6
    THEN ErrorResponse(400, "Password must be at least 6 characters long")
  ELSE IF body.confirmPassword # "" /\ body.password # body.confirmPassword
    THEN ErrorResponse(400, "Passwords do not match")
  ELSE IF Len(trim(body.name)) < 2
    THEN ErrorResponse(400, "Name must be at least 2 characters long")
  ELSE IF Len(body.name) > 50
    THEN ErrorResponse(400, "Name cannot be longer than 50 characters")
  ELSE IF findByEmail(store, toLowerCase(body.email)) # {}
    THEN ErrorResponse(409, "An account with this email already exists")
  ELSE None

\* the document that new User({...}) builds
newUser(store, body, salt) ==
  [id       |-> newId(store),
   email    |-> emailSetter(trim(toLowerCase(body.email))),
   password |-> hashPassword(body.password, salt),
   name     |-> nameSetter(trim(body.name))]

RegisterUserFields ==
  {"id", "email", "name", "fitnessProfile", "isEmailVerified",
   "profileCompleteness", "createdAt"}

\* registerSave that signs the fields of the request body
registerSave_bodyClaims(store, body, salt, t) ==
  LET doc == newUser(store, body, salt)
  IN  IF ~schemaValid(doc.email, doc.name)
        THEN [store |-> store,
              response |-> ErrorResponse(400, "Please check your input and try again")]
      ELSE IF duplicateKey(store, doc.email, doc.id)
        THEN [store |-> store,
              response |-> ErrorResponse(409, "An account with this email already exists")]
      ELSE [store |-> store \cup {doc},
            response |->
              UserResponse(201, RegisterUserFields,
                generateToken([userId |-> doc.id, email |-> body.email,
                               name |-> body.name], t))]

\* the handler from hashPassword on: the collection and the response after
\* newUser.save()
registerSave(store, body, salt, t) ==
  LET doc == newUser(store, body, salt)
  IN  IF ~schemaValid(doc.email, doc.name)
        THEN [store |-> store,
              response |-> ErrorResponse(400, "Please check your input and try again")]
      ELSE IF duplicateKey(store, doc.email, doc.id)
        THEN [store |-> store,
              response |-> ErrorResponse(409, "An account with this email already exists")]
      ELSE [store |-> store \cup {doc},
            response |->
              UserResponse(201, RegisterUserFields,
                generateToken([userId |-> doc.id, email |-> doc.email,
                               name |-> doc.name], t))]

----------------------------------------------------------------------------
(* PUT /api/auth/update-profile *)

UpdateBody(email, name) == [email |-> email, name |-> name]

UpdateBodies ==
  {UpdateBody("A@B.com", ""), UpdateBody("c@d.org", ""),
   UpdateBody("nope", ""), UpdateBody("", "")}

Letters == CharsOf(UpperChars) \cup CharsOf(LowerChars)

AlphaNum == Letters \cup CharsOf(Digits)

\* z.string().email(): zod's pattern
\* /^(?!\.)(?!.*\.\.)([A-Z0-9_'+\-\.]*)[A-Z0-9_+-]@([A-Z0-9][A-Z0-9\-]*\.)+[A-Z]{2,}$/i
zodEmail(email) ==
  /\ Cardinality(indexesOf(email, "@")) = 1
  /\ LET at     == CHOOSE i \in indexesOf(email, "@") : TRUE
         local  == SubSeq(email, 1, at - 1)
         domain == SubSeq(email, at + 1, Len(email))
         dots   == indexesOf(domain, ".")
     IN  /\ local # "" /\ domain # "" /\ dots # {}
         /\ charAt(local, 1) # "."
         /\ \A i \in 1..Len(local) :
              charAt(local, i) \in AlphaNum \cup {"_", "'", "+", "-", "."}
         /\ \A i \in 1..(Len(local) - 1) :
              charAt(local, i) # "." \/ charAt(local, i + 1) # "."
         /\ charAt(local, Len(local)) \in AlphaNum \cup {"_", "+", "-"}
         /\ \A i \in 1..Len(domain) : charAt(domain, i) \in AlphaNum \cup {"-", "."}
         /\ charAt(domain, 1) \in AlphaNum
         /\ \A i \in dots : i < Len(domain) /\ charAt(domain, i + 1) \in AlphaNum
         /\ LET last == CHOOSE i \in dots : \A j \in dots : j <= i
            IN  /\ Len(domain) - last >= 2
                /\ \A i \in (last + 1)..Len(domain) : charAt(domain, i) \in Letters

\* updateProfileSchema.parse(body)
updateProfileSchema_ok(body) ==
  /\ body.email # "" \/ body.name # ""
  /\ body.email # "" => zodEmail(body.email)
  /\ body.name # "" => Len(body.name) <= 100

UpdateUserFields ==
  {"id", "email", "name", "fitnessProfile", "programs", "createdAt", "updatedAt"}

\* the handler up to and including User.findOne: the response it returns
\* there, or None when it goes on to update the account
updateCheck(store, cookie, body, t) ==
  IF ~truthy(cookie)
    THEN ErrorResponse(401, "Authentication required")
  ELSE IF verifyToken(cookie, t).value = null
    THEN ErrorResponse(401, "Invalid authentication token")
  ELSE IF ~updateProfileSchema_ok(body)
    THEN ErrorResponse(400, "Validation failed")
  ELSE IF /\ body.email # ""
          /\ \E u \in findByEmail(store, body.email) :
               u.id # verifyToken(cookie, t).value.userId
    THEN ErrorResponse(400, "Email already in use")
  ELSE None

\* the handler from "Prepare update data" on: the collection and the
\* response after User.findByIdAndUpdate(userId, { $set }, { runValidators })
updateSave(store, userId, body) ==
  LET found == findById(store, userId)
      old   == CHOOSE u \in found : TRUE
      email == IF body.email # "" THEN emailSetter(body.email) ELSE old.email
      name  == IF body.name # "" THEN nameSetter(body.name) ELSE old.name
  IN  IF found = {}
        THEN [store |-> store, response |-> ErrorResponse(404, "User not found")]
      ELSE IF ~schemaValid(email, name)
        THEN [store |-> store,
              response |-> ErrorResponse(500, "Internal server error")]
      ELSE IF duplicateKey(store, email, userId)
        THEN [store |-> store,
              response |-> ErrorResponse(400, "Email already in use")]
      ELSE [store |-> (store \ found)
                        \cup {[old EXCEPT !.email = email, !.name = name]},
            response |-> UserResponse(200, UpdateUserFields, NoCookie)]

----------------------------------------------------------------------------
(* GET /api/auth/me *)

MeUserFields ==
  {"id", "email", "name", "fitnessProfile", "programs", "createdAt", "updatedAt"}

me(store, cookie, t) ==
  IF ~truthy(cookie)
    THEN ErrorResponse(401, "No authentication token found")
  ELSE IF verifyToken(cookie, t).value = null
    THEN ErrorResponse(401, "Invalid authentication token")
  ELSE IF findById(store, verifyToken(cookie, t).value.userId) = {}
    THEN ErrorResponse(404, "User not found")
  ELSE UserResponse(200, MeUserFields, NoCookie)

----------------------------------------------------------------------------
(* POST /api/auth/login and POST /api/auth/logout *)

LoginBody(email, password) == [email |-> email, password |-> password]

LoginBodies ==
  {LoginBody("a@b.com", "secret1"), LoginBody("A@B.com", "secret2"),
   LoginBody("C@D.org", "secret1")}

LoginUserFields == {"id", "email", "name", "fitnessProfile"}

\* login: an unknown e-mail and a wrong password get the same 401
login(store, body, t) ==
  LET found == findByEmail(store, toLowerCase(body.email))
      user  == CHOOSE u \in found : TRUE
  IN  IF found = {} \/ ~comparePassword(body.password, user.password)
        THEN ErrorResponse(401, "Invalid email or password")
      ELSE UserResponse(200, LoginUserFields,
             generateToken([userId |-> user.id, email |-> user.email,
                            name |-> user.name], t))

\* logout: the response clears the cookie; the server keeps no session state
logout ==
  [status |-> 200, success |-> TRUE, error |-> Absent, userFields |-> {},
   setCookie |-> NoCookie, clearCookie |-> TRUE]

----------------------------------------------------------------------------
(* The auth endpoints as a state machine *)

Slots == 1..MaxInflight

\* the salt that bcrypt.genSalt draws for a new account
AuthSalts == {"salt1"}

\* the token login would issue an account now
sessionOf(u, t) ==
  generateToken([userId |-> u.id, email |-> u.email, name |-> u.name], t)

\* the client's cookie after a response
cookieAfter(response) ==
  IF response.setCookie # NoCookie THEN response.setCookie ELSE jar

\* a response that sets a new cookie starts a session that is not logged out
loggedOutAfter(response) ==
  IF response.clearCookie THEN TRUE
  ELSE IF response.setCookie # NoCookie THEN FALSE
  ELSE loggedOut

\* the cookie the browser sends: none once the cookie was cleared
browserCookie == IF loggedOut THEN NoCookie ELSE jar

\* the response reaches the client
Respond(endpoint, body, cookie, response, held, created, decoded) ==
  /\ resp' = Sent(endpoint, body, cookie, clock, response, held, created, decoded)
  /\ jar' = cookieAfter(response)
  /\ loggedOut' = loggedOutAfter(response)

\* the step sends no response
Silent ==
  /\ resp' = None
  /\ UNCHANGED <<jar, loggedOut>>

held(store, email) == findByEmail(store, toLowerCase(email)) # {}

\* POST /api/auth/register arrives and runs up to User.findOne
RegisterBegin ==
  \E slot \in Slots, body \in RegisterBodies :
    /\ inflight[slot] = None
    /\ Cardinality(users) <= MaxUsers
    /\ LET response == registerCheck(users, body)
       IN  IF response = None
             THEN /\ inflight' = [inflight EXCEPT ![slot] =
                                    [kind |-> "register", body |-> body]]
                  /\ Silent
             ELSE /\ Respond("register", body, browserCookie, response,
                             held(users, body.email), FALSE, null)
                  /\ UNCHANGED inflight
    /\ UNCHANGED <<clock, users, notAuth>>

\* the registration hashes the password, saves the account and answers
RegisterSave ==
  \E slot \in Slots, salt \in AuthSalts :
    /\ inflight[slot].kind = "register"
    /\ LET body == inflight[slot].body
           out  == registerSave(users, body, salt, clock)
       IN  /\ users' = out.store
           /\ Respond("register", body, browserCookie, out.response,
                      held(users, body.email), out.store # users, null)
    /\ inflight' = [inflight EXCEPT ![slot] = None]
    /\ UNCHANGED <<clock, notAuth>>

\* PUT /api/auth/update-profile arrives from a client that is logged in to
\* an account, and runs up to User.findOne
UpdateBegin ==
  \E slot \in Slots, u \in users, body \in UpdateBodies :
    LET cookie == sessionOf(u, clock)
        response == updateCheck(users, cookie, body, clock)
    IN  /\ inflight[slot] = None
        /\ IF response = None
             THEN /\ inflight' = [inflight EXCEPT ![slot] =
                                    [kind |-> "update", body |-> body,
                                     userId |-> verifyToken(cookie, clock).value.userId]]
                  /\ Silent
             ELSE /\ Respond("update", body, cookie, response, FALSE, FALSE,
                             verifyToken(cookie, clock).value)
                  /\ UNCHANGED inflight
        /\ UNCHANGED <<clock, users, notAuth>>

\* the profile update writes the account and answers
UpdateSave ==
  \E slot \in Slots :
    /\ inflight[slot].kind = "update"
    /\ LET p   == inflight[slot]
           out == updateSave(users, p.userId, p.body)
       IN  /\ users' = out.store
           /\ Respond("update", p.body, Absent, out.response, FALSE, FALSE, null)
    /\ inflight' = [inflight EXCEPT ![slot] = None]
    /\ UNCHANGED <<clock, notAuth>>

AccountsNext == RegisterBegin \/ RegisterSave \/ UpdateBegin \/ UpdateSave

\* registrations and profile updates, interleaved at their awaits
SpecAccounts == Init /\ [][AccountsNext]_vars

----------------------------------------------------------------------------
(* One client's session: requests handled one after the other *)

\* cookies the client can send: the browser's, the last one it was given
\* (replayed after logout), a forged one
ClientCookies == {browserCookie, jar, Malformed}

\* the clock passes one token lifetime
AuthTick ==
  /\ clock < MaxLifetimes * expiresIn
  /\ clock' = clock + expiresIn
  /\ Silent
  /\ UNCHANGED <<users, inflight, notAuth>>

\* POST /api/auth/register, from arrival to response
Register ==
  \E body \in RegisterBodies, salt \in AuthSalts :
    /\ Cardinality(users) <= MaxUsers
    /\ LET response == registerCheck(users, body)
           out == IF response = None
                    THEN registerSave(users, body, salt, clock)
                    ELSE [store |-> users, response |-> response]
       IN  /\ users' = out.store
           /\ Respond("register", body, browserCookie, out.response,
                      held(users, body.email), out.store # users, null)
    /\ UNCHANGED <<clock, inflight, notAuth>>

\* GET /api/auth/me
Me ==
  \E cookie \in ClientCookies :
    /\ Respond("me", Absent, cookie, me(users, cookie, clock), FALSE, FALSE,
               IF truthy(cookie) THEN verifyToken(cookie, clock).value ELSE null)
    /\ UNCHANGED <<clock, users, inflight, notAuth>>

\* POST /api/auth/login
Login ==
  \E body \in LoginBodies :
    /\ Respond("login", body, browserCookie, login(users, body, clock),
               held(users, body.email), FALSE, null)
    /\ UNCHANGED <<clock, users, inflight, notAuth>>

\* POST /api/auth/logout from the browser
Logout ==
  /\ truthy(browserCookie)
  /\ Respond("logout", Absent, browserCookie, logout, FALSE, FALSE, null)
  /\ UNCHANGED <<clock, users, inflight, notAuth>>

SessionNext == AuthTick \/ Register \/ Me \/ Login \/ Logout

SpecSession == Init /\ [][SessionNext]_vars

----------------------------------------------------------------------------
(* models/Program and POST /api/programs *)

ProgramTypes ==
  {"weight_loss", "muscle_gain", "strength", "endurance", "general_fitness",
   "rehabilitation"}

Difficulties == {"beginner", "intermediate", "advanced"}

Statuses == {"draft", "active", "completed", "paused"}

\* a date path that holds no date
NoDate == -1

\* the paths of ProgramSchema that the handlers and the virtuals read
ProgramDoc(id, userId, title, programType, duration, difficulty, status,
           startDate, endDate, updatedAt) ==
  [id |-> id, userId |-> userId, title |-> title, programType |-> programType,
   duration |-> duration, difficulty |-> difficulty, status |-> status,
   startDate |-> startDate, endDate |-> endDate, updatedAt |-> updatedAt,
   description |-> "", nutritionPlan |-> Absent]

\* the validators of ProgramSchema that save() runs
programValid(doc) ==
  /\ doc.userId # Absent
  /\ doc.title # Absent
  /\ Len(doc.title) <= 100
  /\ doc.programType \in ProgramTypes
  /\ doc.duration \in 1..52
  /\ doc.difficulty \in Difficulties
  /\ doc.status \in Statuses

\* ProgramSchema.virtual('isActive'): a getter over status and the dates;
\* the schema has no path isActive
isActive(doc, t) ==
  /\ doc.status = "active"
  /\ doc.startDate # NoDate
  /\ doc.startDate <= t
  /\ doc.endDate = NoDate \/ doc.endDate >= t

\* body of POST /api/programs; '' stands for a field that was not sent
ProgramBody(name, workoutPlan, nutritionPlan) ==
  [name |-> name, description |-> "", workoutPlan |-> workoutPlan,
   nutritionPlan |-> nutritionPlan]

ProgramBodies ==
  {ProgramBody("Plan A", "push-pull-legs", "2200 kcal"),
   ProgramBody("", "push-pull-legs", "2200 kcal"),
   ProgramBody("Plan B", "push-pull-legs", "")}

\* new Program({ userId, name, description, workoutPlan, nutritionPlan,
\* isActive: true, createdAt, updatedAt }): the strict schema keeps the
\* paths it declares; name, workoutPlan and isActive are none of them, and
\* status takes its default
newProgram(store, userId, body, t) ==
  ProgramDoc("p" \o ToString(Cardinality(store) + 1), userId, Absent, Absent,
             Absent, Absent, "draft", NoDate, NoDate, t)

\* Program.updateMany({ userId, isActive: true },
\*                    { isActive: false, updatedAt: new Date() }):
\* the update keeps updatedAt, the one path of it that the schema declares;
\* with strictQuery the filter loses isActive and matches the user's
\* programs, without it the filter matches the documents that store
\* isActive, and none does
updateManyActive(store, userId, t, strictQuery) ==
  {IF strictQuery /\ p.userId = userId THEN [p EXCEPT !.updatedAt = t] ELSE p :
     p \in store}

\* NextResponse.json({ success: true, program: {...} })
ProgramResponse(doc, t) ==
  [status |-> 200, success |-> TRUE, error |-> Absent, userFields |-> {},
   setCookie |-> NoCookie, clearCookie |-> FALSE,
   program |-> [id |-> doc.id, isActive |-> isActive(doc, t)]]

\* the handler up to and including User.findById: the response it returns
\* there, or None when it goes on to create the program
programsPostCheck(store, cookie, body, t) ==
  IF ~truthy(cookie)
    THEN ErrorResponse(401, "Unauthorized")
  ELSE IF verifyToken(cookie, t).value = null
    THEN ErrorResponse(401, "Invalid token")
  ELSE IF body.name = "" \/ body.workoutPlan = "" \/ body.nutritionPlan = ""
    THEN ErrorResponse(400, "Name, workout plan, and nutrition plan are required")
  ELSE IF findById(store, verifyToken(cookie, t).value.userId) = {}
    THEN ErrorResponse(404, "User not found")
  ELSE None

\* the collections the handler has queried when it returns there
programsPostQueried(cookie, body, t) ==
  IF ~truthy(cookie) \/ verifyToken(cookie, t).value = null THEN {}
  ELSE IF body.name = "" \/ body.workoutPlan = "" \/ body.nutritionPlan = "" THEN {}
  ELSE {"users"}

\* program.save(), user.programs.push, user.save() and the response; a
\* ValidationError of save() is caught and answered 500
programsPostSave(store, refs, doc, t) ==
  IF ~programValid(doc)
    THEN [store |-> store, refs |-> refs,
          response |-> ErrorResponse(500, "Internal server error")]
  ELSE [store |-> store \cup {doc},
        refs |-> [refs EXCEPT ![doc.userId] = @ \cup {doc.id}],
        response |-> ProgramResponse(doc, t)]

\* programs that are in the database when the server starts
SeedProgram(id, userId, status, startDate) ==
  ProgramDoc(id, userId, "Cut", "weight_loss", 8, "beginner", status,
             startDate, NoDate, 0)

SeedPrograms ==
  {{},
   {SeedProgram("p1", "u1", "draft", NoDate)},
   {SeedProgram("p1", "u1", "active", 0)},
   {SeedProgram("p1", "u1", "active", 0), SeedProgram("p2", "u2", "active", 0)},
   {SeedProgram("p1", "u1", "active", 0), SeedProgram("p2", "u2", "active", 0),
    SeedProgram("p3", "u1", "draft", NoDate)}}

\* the accounts of two registrations
SeedUsers ==
  registerSave(
    registerSave({}, RegisterBody("a@b.com", "secret1", "Al", ""), "salt1", 0).store,
    RegisterBody("c@d.org", "secret1", "Bo", ""), "salt1", 0).store

\* a server with two accounts and some programs
SeededInit ==
  /\ GateInit /\ TokenInit /\ HashInit /\ ClientInit /\ ProviderInit
  /\ clock = 0
  /\ users = SeedUsers
  /\ inflight = [slot \in 1..MaxInflight |-> None]
  /\ resp = None
  /\ jar = NoCookie
  /\ loggedOut = FALSE
  /\ programs \in SeedPrograms
  /\ userPrograms = [u \in UserIds |-> {p.id : p \in {q \in programs : q.userId = u}}]
  /\ queried = {}

\* cookies of the requests: none, a forged one, the sessions of the
\* accounts, the session of an account that was deleted
ProgramCookies ==
  {NoCookie, Malformed}
    \cup {sessionOf(u, 0) : u \in users}
    \cup {generateToken([userId |-> "u9", email |-> "x@y.com", name |-> "Xi"], 0)}

\* POST /api/programs arrives and runs up to User.findById
ProgramsPostBegin ==
  \E slot \in Slots, cookie \in ProgramCookies, body \in ProgramBodies :
    LET response == programsPostCheck(users, cookie, body, clock)
        decoded  == IF truthy(cookie) THEN verifyToken(cookie, clock).value ELSE null
    IN  /\ inflight[slot] = None
        /\ Cardinality(programs) <= MaxPrograms
        /\ IF response = None
             THEN /\ inflight' = [inflight EXCEPT ![slot] =
                                    [kind |-> "program", body |-> body,
                                     cookie |-> cookie, decoded |-> decoded,
                                     userId |-> decoded.userId,
                                     doc |-> newProgram(programs, decoded.userId,
                                                        body, clock),
                                     deactivated |-> FALSE]]
                  /\ Silent
             ELSE /\ Respond("programs", body, cookie, response, FALSE, FALSE,
                             decoded)
                  /\ UNCHANGED inflight
        /\ queried' = programsPostQueried(cookie, body, clock)
        /\ UNCHANGED <<clock, programVars, notPrograms>>

\* the request deactivates the user's other programs
ProgramsPostDeactivate ==
  \E slot \in Slots, strictQuery \in BOOLEAN :
    /\ inflight[slot].kind = "program"
    /\ ~inflight[slot].deactivated
    /\ programs' = updateManyActive(programs, inflight[slot].userId, clock,
                                    strictQuery)
    /\ inflight' = [inflight EXCEPT ![slot].deactivated = TRUE]
    /\ Silent
    /\ queried' = {"programs"}
    /\ UNCHANGED <<clock, userPrograms, notPrograms>>

\* the request saves the program and answers
ProgramsPostSave ==
  \E slot \in Slots :
    /\ inflight[slot].kind = "program"
    /\ inflight[slot].deactivated
    /\ LET p   == inflight[slot]
           out == programsPostSave(programs, userPrograms, p.doc, clock)
       IN  /\ programs' = out.store
           /\ userPrograms' = out.refs
           /\ Respond("programs", p.body, p.cookie, out.response, FALSE,
                      out.store # programs, p.decoded)
           /\ queried' = IF out.store # programs THEN {"programs", "users"} ELSE {}
    /\ inflight' = [inflight EXCEPT ![slot] = None]
    /\ UNCHANGED <<clock, notPrograms>>

\* the clock passes one token lifetime
ProgramTick ==
  /\ clock < MaxLifetimes * expiresIn
  /\ clock' = clock + expiresIn
  /\ Silent
  /\ queried' = {}
  /\ UNCHANGED <<inflight, programVars, notPrograms>>

----------------------------------------------------------------------------
(* PUT /api/programs/[id] *)

\* the ids of the requests: two programs of the first account, and one of
\* no program
ProgramIds == {"p1", "p3", "p9"}

\* the body of the request; isActive is absent or a JSON boolean
PutBody(id, description, active) ==
  [id |-> id, description |-> description, isActive |-> active]

PutBodies ==
  UNION {{PutBody(id, Absent, "true"), PutBody(id, "Lean", "false"),
          PutBody(id, "Lean", Absent)} : id \in ProgramIds}

\* Program.findOne({ _id: programId, userId })
programFind(store, id, userId) == {p \in store : p.id = id /\ p.userId = userId}

\* a document as a query loads it, with the paths assigned since
Loaded(doc) == [doc |-> doc, modified |-> {}]

\* if (value !== undefined) program[path] = value
assign(program, path, value) ==
  IF value = Absent THEN program
  ELSE [doc |-> [program.doc EXCEPT ![path] = value],
        modified |-> program.modified \cup {path}]

\* program.isActive = isActive, were isActive a path of the schema
setIsActive_stored(program, active) ==
  [doc |-> [program.doc EXCEPT
              !.status = IF active = "true" THEN "active" ELSE "paused",
              !.startDate = 0, !.endDate = NoDate],
   modified |-> program.modified \cup {"status", "startDate", "endDate"}]

\* program.isActive = isActive: isActive is a virtual with a getter and no
\* setter, and the assignment changes no path of the document
setIsActive(program, active) == program

\* Program.updateMany({ userId, _id: { $ne: programId }, isActive: true },
\*                    { isActive: false, updatedAt: new Date() })
updateManyOthers(store, userId, programId, t, strictQuery) ==
  {IF strictQuery /\ p.userId = userId /\ p.id # programId
     THEN [p EXCEPT !.updatedAt = t] ELSE p : p \in store}

\* the handler up to and including Program.findOne: the response it returns
\* there, or None when it goes on to update the program
programPutCheck(store, cookie, body, t) ==
  IF ~truthy(cookie)
    THEN ErrorResponse(401, "Unauthorized")
  ELSE IF verifyToken(cookie, t).value = null
    THEN ErrorResponse(401, "Invalid token")
  ELSE IF programFind(store, body.id, verifyToken(cookie, t).value.userId) = {}
    THEN ErrorResponse(404, "Program not found")
  ELSE None

\* the collections a handler of /api/programs/[id] has queried when it
\* returns
programQueried(cookie, t) ==
  IF ~truthy(cookie) \/ verifyToken(cookie, t).value = null THEN {}
  ELSE {"programs"}

\* the assignments of the handler to the program it found
programPutAssign(program, body, t) ==
  LET described == assign(program, "description", body.description)
      activated == IF body.isActive # Absent
                     THEN setIsActive(described, body.isActive)
                     ELSE described
  IN  [doc |-> [activated.doc EXCEPT !.updatedAt = t],
       modified |-> activated.modified \cup {"updatedAt"}]

\* the stored document after save() has written the modified paths
written(stored, program) ==
  [stored EXCEPT
     !.description = IF "description" \in program.modified
                       THEN program.doc.description ELSE @,
     !.nutritionPlan = IF "nutritionPlan" \in program.modified
                         THEN program.doc.nutritionPlan ELSE @,
     !.status = IF "status" \in program.modified THEN program.doc.status ELSE @,
     !.startDate = IF "startDate" \in program.modified
                     THEN program.doc.startDate ELSE @,
     !.endDate = IF "endDate" \in program.modified THEN program.doc.endDate ELSE @,
     !.updatedAt = IF "updatedAt" \in program.modified
                     THEN program.doc.updatedAt ELSE @]

\* program.save(): the validators run, then the modified paths are written
\* to the stored document; save() throws when the document is invalid or
\* is no longer stored
saveProgram(store, program) ==
  LET stored == {p \in store : p.id = program.doc.id}
  IN  IF ~programValid(program.doc) \/ stored = {}
        THEN [store |-> store, saved |-> FALSE]
      ELSE [store |-> (store \ stored) \cup {written(p, program) : p \in stored},
            saved |-> TRUE]

\* the assignments, program.save() and the response; what save() throws is
\* caught and answered 500
programPutSave(store, program, body, t) ==
  LET assigned == programPutAssign(program, body, t)
      out      == saveProgram(store, assigned)
  IN  IF ~out.saved
        THEN [store |-> store,
              response |-> ErrorResponse(500, "Internal server error")]
      ELSE [store |-> out.store, response |-> ProgramResponse(assigned.doc, t)]

\* PUT /api/programs/[id] arrives and runs up to Program.findOne
ProgramPutBegin ==
  \E slot \in Slots, cookie \in ProgramCookies, body \in PutBodies :
    LET response == programPutCheck(programs, cookie, body, clock)
        decoded  == IF truthy(cookie) THEN verifyToken(cookie, clock).value ELSE null
    IN  /\ inflight[slot] = None
        /\ IF response = None
             THEN /\ inflight' = [inflight EXCEPT ![slot] =
                                    [kind |-> "put", body |-> body,
                                     cookie |-> cookie, decoded |-> decoded,
                                     userId |-> decoded.userId,
                                     doc |-> CHOOSE q \in programFind(
                                               programs, body.id, decoded.userId) : TRUE,
                                     deactivated |-> FALSE]]
                  /\ Silent
             ELSE /\ Respond("program-put", body, cookie, response, FALSE, FALSE,
                             decoded)
                  /\ UNCHANGED inflight
        /\ queried' = programQueried(cookie, clock)
        /\ UNCHANGED <<clock, programVars, notPrograms>>

\* the request, asked to activate the program, deactivates the user's others
ProgramPutDeactivate ==
  \E slot \in Slots, strictQuery \in BOOLEAN :
    /\ inflight[slot].kind = "put"
    /\ inflight[slot].body.isActive = "true"
    /\ ~inflight[slot].deactivated
    /\ programs' = updateManyOthers(programs, inflight[slot].userId,
                                    inflight[slot].body.id, clock, strictQuery)
    /\ inflight' = [inflight EXCEPT ![slot].deactivated = TRUE]
    /\ Silent
    /\ queried' = {"programs"}
    /\ UNCHANGED <<clock, userPrograms, notPrograms>>

\* the request saves the program and answers
ProgramPutSave ==
  \E slot \in Slots :
    /\ inflight[slot].kind = "put"
    /\ inflight[slot].body.isActive = "true" => inflight[slot].deactivated
    /\ LET p   == inflight[slot]
           out == programPutSave(programs, Loaded(p.doc), p.body, clock)
       IN  /\ programs' = out.store
           /\ Respond("program-put", p.body, p.cookie, out.response, FALSE, FALSE,
                      p.decoded)
    /\ queried' = {"programs"}
    /\ inflight' = [inflight EXCEPT ![slot] = None]
    /\ UNCHANGED <<clock, userPrograms, notPrograms>>

ProgramsNext ==
  \/ ProgramTick
  \/ ProgramsPostBegin \/ ProgramsPostDeactivate \/ ProgramsPostSave
  \/ ProgramPutBegin \/ ProgramPutDeactivate \/ ProgramPutSave

SpecPrograms == SeededInit /\ [][ProgramsNext]_vars

----------------------------------------------------------------------------
(* GET /api/programs, GET and DELETE /api/programs/[id], GET /api/auth/me *)

\* NextResponse.json({ success: true, programs: [...] })
ListResponse(ids) ==
  [status |-> 200, success |-> TRUE, error |-> Absent, userFields |-> {},
   setCookie |-> NoCookie, clearCookie |-> FALSE, programs |-> ids]

\* NextResponse.json({ success: true, message })
MessageResponse(message) ==
  [status |-> 200, success |-> TRUE, error |-> Absent, userFields |-> {},
   setCookie |-> NoCookie, clearCookie |-> FALSE, message |-> message]

\* GET /api/programs: Program.find({ userId })
programsGet(store, cookie, t) ==
  IF ~truthy(cookie)
    THEN [response |-> ErrorResponse(401, "Unauthorized"), queried |-> {}]
  ELSE IF verifyToken(cookie, t).value = null
    THEN [response |-> ErrorResponse(401, "Invalid token"), queried |-> {}]
  ELSE [response |-> ListResponse(
                       {p.id : p \in {q \in store :
                                        q.userId = verifyToken(cookie, t).value.userId}}),
        queried |-> {"programs"}]

\* GET /api/programs/[id], were the token not verified and the owner not
\* matched
programGet_unverified(store, cookie, id, t) ==
  IF ~truthy(cookie)
    THEN [response |-> ErrorResponse(401, "Unauthorized"), queried |-> {}]
  ELSE IF {p \in store : p.id = id} = {}
    THEN [response |-> ErrorResponse(404, "Program not found"),
          queried |-> {"programs"}]
  ELSE [response |-> ProgramResponse(CHOOSE p \in store : p.id = id, t),
        queried |-> {"programs"}]

\* GET /api/programs/[id]: Program.findOne({ _id: programId, userId })
programGet(store, cookie, id, t) ==
  IF ~truthy(cookie)
    THEN [response |-> ErrorResponse(401, "Unauthorized"), queried |-> {}]
  ELSE IF verifyToken(cookie, t).value = null
    THEN [response |-> ErrorResponse(401, "Invalid token"), queried |-> {}]
  ELSE LET found == programFind(store, id, verifyToken(cookie, t).value.userId)
       IN  IF found = {}
             THEN [response |-> ErrorResponse(404, "Program not found"),
                   queried |-> {"programs"}]
           ELSE [response |-> ProgramResponse(CHOOSE p \in found : TRUE, t),
                 queried |-> {"programs"}]

\* DELETE /api/programs/[id]:
\* Program.findOneAndDelete({ _id: programId, userId })
programDelete(store, cookie, id, t) ==
  IF ~truthy(cookie)
    THEN [store |-> store, response |-> ErrorResponse(401, "Unauthorized"),
          queried |-> {}]
  ELSE IF verifyToken(cookie, t).value = null
    THEN [store |-> store, response |-> ErrorResponse(401, "Invalid token"),
          queried |-> {}]
  ELSE LET found == programFind(store, id, verifyToken(cookie, t).value.userId)
       IN  IF found = {}
             THEN [store |-> store,
                   response |-> ErrorResponse(404, "Program not found"),
                   queried |-> {"programs"}]
           ELSE [store |-> store \ found,
                 response |-> MessageResponse("Program deleted successfully"),
                 queried |-> {"programs"}]

\* the collections GET /api/auth/me has queried when it returns
meQueried(cookie, t) ==
  IF ~truthy(cookie) \/ verifyToken(cookie, t).value = null THEN {} ELSE {"users"}

\* what verifyToken gives the handler
decodedOf(cookie, t) == IF truthy(cookie) THEN verifyToken(cookie, t).value ELSE null

\* the id of the request
IdBody(id) == [id |-> id]

ProgramsGet ==
  \E cookie \in ProgramCookies :
    LET out == programsGet(programs, cookie, clock)
    IN  /\ Respond("programs-get", None, cookie, out.response, FALSE, FALSE,
                   decodedOf(cookie, clock))
        /\ queried' = out.queried
        /\ UNCHANGED <<clock, inflight, programVars, notPrograms>>

ProgramGet ==
  \E cookie \in ProgramCookies, id \in ProgramIds :
    LET out == programGet(programs, cookie, id, clock)
    IN  /\ Respond("program-get", IdBody(id), cookie, out.response, FALSE, FALSE,
                   decodedOf(cookie, clock))
        /\ queried' = out.queried
        /\ UNCHANGED <<clock, inflight, programVars, notPrograms>>

ProgramDelete ==
  \E cookie \in ProgramCookies, id \in ProgramIds :
    LET out == programDelete(programs, cookie, id, clock)
    IN  /\ programs' = out.store
        /\ Respond("program-delete", IdBody(id), cookie, out.response, FALSE,
                   FALSE, decodedOf(cookie, clock))
        /\ queried' = out.queried
        /\ UNCHANGED <<clock, inflight, userPrograms, notPrograms>>

\* GET /api/auth/me with any of the cookies
MeRequest ==
  \E cookie \in ProgramCookies :
    /\ Respond("me", None, cookie, me(users, cookie, clock), FALSE, FALSE,
               decodedOf(cookie, clock))
    /\ queried' = meQueried(cookie, clock)
    /\ UNCHANGED <<clock, inflight, programVars, notPrograms>>

----------------------------------------------------------------------------
(* POST and GET /api/ai/workout, POST /api/ai/nutrition *)

\* what generateWorkoutPlan and generateNutritionPlan give: a plan that the
\* schema accepts, a plan that it rejects, or an exception
Generated == {"plan", "bad-plan", "threw"}

\* body of POST /api/ai/workout; '' stands for a field that was not sent
WorkoutBody(programType, difficulty, saveAsProgram) ==
  [programType |-> programType, difficulty |-> difficulty,
   saveAsProgram |-> saveAsProgram]

WorkoutBodies ==
  {WorkoutBody("strength", "beginner", TRUE), WorkoutBody("strength", "", FALSE),
   WorkoutBody("yoga", "beginner", FALSE)}

\* body of POST /api/ai/nutrition
NutritionBody(programType, saveToProgramId, createNewProgram) ==
  [programType |-> programType, saveToProgramId |-> saveToProgramId,
   createNewProgram |-> createNewProgram]

NutritionBodies ==
  {NutritionBody("", Absent, FALSE), NutritionBody("weight_loss", Absent, TRUE),
   NutritionBody("weight_loss", "p1", FALSE),
   NutritionBody("weight_loss", "p9", FALSE)}

\* NextResponse.json({ success: true, ..., updatedProgram, createdProgram }),
\* savedProgram for the workout
PlanResponse(updated, created) ==
  [status |-> 200, success |-> TRUE, error |-> Absent, userFields |-> {},
   setCookie |-> NoCookie, clearCookie |-> FALSE, updatedProgram |-> updated,
   createdProgram |-> created]

\* the handlers of the AI routes up to and including User.findById: the
\* response they return there, or None when they go on; a user that is
\* found has a fitnessProfile, for the schema gives it a default
aiCheck(store, configured, cookie, t) ==
  IF ~configured
    THEN ErrorResponse(503, "AI service is not configured. Please check OpenAI API key.")
  ELSE IF ~truthy(cookie)
    THEN ErrorResponse(401, "Authentication required")
  ELSE IF verifyToken(cookie, t).value = null
    THEN ErrorResponse(401, "Invalid authentication token")
  ELSE IF findById(store, verifyToken(cookie, t).value.userId) = {}
    THEN ErrorResponse(400, "User fitness profile not found. Please complete your profile first.")
  ELSE None

\* the collections the handler has queried when aiCheck returns
aiQueried(configured, cookie, t) ==
  IF ~configured \/ ~truthy(cookie) \/ verifyToken(cookie, t).value = null
    THEN {}
  ELSE {"users"}

\* new Program({ name, description, type, difficulty, duration, createdBy,
\* ... }) of the AI routes: the strict schema keeps description, difficulty
\* and duration; userId, title and programType are not given
aiProgram(store, difficulty, duration, t) ==
  ProgramDoc("p" \o ToString(Cardinality(store) + 1), Absent, Absent, Absent,
             duration, difficulty, "draft", NoDate, NoDate, t)

\* program.save() of a new program: the id of the saved program, or null
\* when save() throws, which the handler catches and ignores
saveNew(store, doc) ==
  IF programValid(doc) THEN [store |-> store \cup {doc}, saved |-> doc.id]
  ELSE [store |-> store, saved |-> Absent]

\* POST /api/ai/workout
workoutPost(accounts, store, configured, cookie, body, generated, t) ==
  LET early == aiCheck(accounts, configured, cookie, t)
      stop(response, read) ==
        [store |-> store, response |-> response,
         queried |-> aiQueried(configured, cookie, t) \cup read]
  IN  IF early # None THEN stop(early, {})
      ELSE IF body.programType = "" \/ body.difficulty = ""
        THEN stop(ErrorResponse(400, "Program type and difficulty are required"), {})
      ELSE IF body.programType \notin ProgramTypes
        THEN stop(ErrorResponse(400, "Invalid program type"), {})
      ELSE IF body.difficulty \notin Difficulties
        THEN stop(ErrorResponse(400, "Invalid difficulty level"), {})
      ELSE IF generated = "threw"
        THEN stop(ErrorResponse(500, "Internal server error. Please try again later."), {})
      ELSE IF ~body.saveAsProgram
        THEN stop(PlanResponse(Absent, Absent), {})
      ELSE LET out == saveNew(store, aiProgram(store, body.difficulty, 4, t))
           IN  [store |-> out.store, response |-> PlanResponse(Absent, out.saved),
                queried |-> {"users"} \cup
                              IF out.saved # Absent THEN {"programs"} ELSE {}]

\* GET /api/ai/workout: Program.find({ createdBy: decoded.userId }), where
\* createdBy is no path of the schema: with strictQuery the filter is
\* empty and matches every program, without it the filter matches the
\* documents that store createdBy, and none does
workoutGet(store, cookie, t, strictQuery) ==
  IF ~truthy(cookie)
    THEN [response |-> ErrorResponse(401, "Authentication required"), queried |-> {}]
  ELSE IF verifyToken(cookie, t).value = null
    THEN [response |-> ErrorResponse(401, "Invalid authentication token"),
          queried |-> {}]
  ELSE [response |-> ListResponse(IF strictQuery THEN {p.id : p \in store} ELSE {}),
        queried |-> {"programs"}]

\* Program.findOne({ _id: saveToProgramId, createdBy: user._id }): with
\* strictQuery the filter keeps _id alone
programFindCreatedBy(store, id, userId, strictQuery) ==
  IF strictQuery THEN {p \in store : p.id = id} ELSE {}

\* the saveToProgramId branch: findOne, program.nutritionPlan = {...},
\* program.save()
nutritionSave(store, id, userId, generated, t, strictQuery) ==
  LET found == programFindCreatedBy(store, id, userId, strictQuery)
      program == Loaded(CHOOSE p \in found : TRUE)
      planned == [doc |-> [program.doc EXCEPT !.nutritionPlan = generated,
                                              !.updatedAt = t],
                  modified |-> {"nutritionPlan", "updatedAt"}]
      out == saveProgram(store, planned)
  IN  IF found = {}
        THEN [store |-> store,
              response |-> ErrorResponse(404, "Program not found or access denied")]
      ELSE IF generated = "bad-plan" \/ ~out.saved
        THEN [store |-> store,
              response |-> ErrorResponse(500, "Failed to save nutrition plan to program")]
      ELSE [store |-> out.store, response |-> PlanResponse(id, Absent)]

\* POST /api/ai/nutrition
nutritionPost(accounts, store, configured, cookie, body, generated, t, strictQuery) ==
  LET early == aiCheck(accounts, configured, cookie, t)
      stop(response, read) ==
        [store |-> store, response |-> response,
         queried |-> aiQueried(configured, cookie, t) \cup read]
  IN  IF early # None THEN stop(early, {})
      ELSE IF body.programType = ""
        THEN stop(ErrorResponse(400, "Program type is required"), {})
      ELSE IF body.programType \notin ProgramTypes
        THEN stop(ErrorResponse(400, "Invalid program type"), {})
      ELSE IF generated = "threw"
        THEN stop(ErrorResponse(500, "Internal server error. Please try again later."), {})
      ELSE IF body.saveToProgramId # Absent
        THEN LET out == nutritionSave(store, body.saveToProgramId,
                                      verifyToken(cookie, t).value.userId,
                                      generated, t, strictQuery)
             IN  [store |-> out.store, response |-> out.response,
                  queried |-> {"users", "programs"}]
      ELSE IF body.createNewProgram
        THEN LET out == saveNew(store, aiProgram(store, "intermediate", 4, t))
             IN  [store |-> out.store, response |-> PlanResponse(Absent, out.saved),
                  queried |-> {"users"} \cup
                                IF out.saved # Absent THEN {"programs"} ELSE {}]
      ELSE stop(PlanResponse(Absent, Absent), {})

\* the request with what the server is configured with when it arrives
AiRequest(configured, body) == [configured |-> configured, body |-> body]

\* the server a request of the AI routes meets: one without its OpenAI key,
\* or one with the key, what the generation gives and the strictQuery
\* option of its Mongoose
AiServer(configured, generated, strictQuery) ==
  [configured |-> configured, generated |-> generated, strictQuery |-> strictQuery]

AiServers ==
  {AiServer(FALSE, "threw", FALSE)}
    \cup {AiServer(TRUE, generated, strictQuery) :
            generated \in Generated, strictQuery \in BOOLEAN}

WorkoutPost ==
  \E server \in {a \in AiServers : ~a.strictQuery /\ a.generated # "bad-plan"},
     cookie \in ProgramCookies, body \in WorkoutBodies :
    LET out == workoutPost(users, programs, server.configured, cookie, body,
                           server.generated, clock)
    IN  /\ programs' = out.store
        /\ Respond("workout", AiRequest(server.configured, body), cookie, out.response,
                   FALSE, out.store # programs, decodedOf(cookie, clock))
        /\ queried' = out.queried
        /\ UNCHANGED <<clock, inflight, userPrograms, notPrograms>>

WorkoutGet ==
  \E cookie \in ProgramCookies, strictQuery \in BOOLEAN :
    LET out == workoutGet(programs, cookie, clock, strictQuery)
    IN  /\ Respond("workout-get", None, cookie, out.response, FALSE, FALSE,
                   decodedOf(cookie, clock))
        /\ queried' = out.queried
        /\ UNCHANGED <<clock, inflight, programVars, notPrograms>>

NutritionPost ==
  \E server \in AiServers, cookie \in ProgramCookies, body \in NutritionBodies :
    LET out == nutritionPost(users, programs, server.configured, cookie, body,
                             server.generated, clock, server.strictQuery)
    IN  /\ programs' = out.store
        /\ Respond("nutrition", AiRequest(server.configured, body), cookie, out.response,
                   FALSE, out.store # programs, decodedOf(cookie, clock))
        /\ queried' = out.queried
        /\ UNCHANGED <<clock, inflight, userPrograms, notPrograms>>

\* POST /api/programs, from arrival to response
programsPost(accounts, store, refs, cookie, body, t, strictQuery) ==
  LET early  == programsPostCheck(accounts, cookie, body, t)
      userId == verifyToken(cookie, t).value.userId
      others == updateManyActive(store, userId, t, strictQuery)
      out    == programsPostSave(others, refs, newProgram(store, userId, body, t), t)
  IN  IF early # None
        THEN [store |-> store, refs |-> refs, response |-> early,
              queried |-> programsPostQueried(cookie, body, t)]
      ELSE [store |-> out.store, refs |-> out.refs, response |-> out.response,
            queried |-> {"users", "programs"}]

\* PUT /api/programs/[id], from arrival to response
programPut(store, cookie, body, t, strictQuery) ==
  LET early  == programPutCheck(store, cookie, body, t)
      userId == verifyToken(cookie, t).value.userId
      found  == CHOOSE p \in programFind(store, body.id, userId) : TRUE
      others == IF body.isActive = "true"
                  THEN updateManyOthers(store, userId, body.id, t, strictQuery)
                  ELSE store
      out    == programPutSave(others, Loaded(found), body, t)
  IN  IF early # None
        THEN [store |-> store, response |-> early,
              queried |-> programQueried(cookie, t)]
      ELSE [store |-> out.store, response |-> out.response,
            queried |-> {"programs"}]

ProgramsPost ==
  \E cookie \in ProgramCookies, body \in ProgramBodies, strictQuery \in BOOLEAN :
    LET out == programsPost(users, programs, userPrograms, cookie, body, clock,
                            strictQuery)
    IN  /\ Cardinality(programs) <= MaxPrograms
        /\ programs' = out.store
        /\ userPrograms' = out.refs
        /\ Respond("programs", body, cookie, out.response, FALSE,
                   Cardinality(out.store) > Cardinality(programs),
                   decodedOf(cookie, clock))
        /\ queried' = out.queried
        /\ UNCHANGED <<clock, inflight, notPrograms>>

ProgramPut ==
  \E cookie \in ProgramCookies, body \in PutBodies, strictQuery \in BOOLEAN :
    LET out == programPut(programs, cookie, body, clock, strictQuery)
    IN  /\ programs' = out.store
        /\ Respond("program-put", body, cookie, out.response, FALSE, FALSE,
                   decodedOf(cookie, clock))
        /\ queried' = out.queried
        /\ UNCHANGED <<clock, inflight, userPrograms, notPrograms>>

\* the handlers of the program, AI and session routes, one request at a time
ApiNext ==
  \/ ProgramsPost \/ ProgramsGet
  \/ ProgramGet \/ ProgramPut \/ ProgramDelete
  \/ WorkoutPost \/ WorkoutGet \/ NutritionPost
  \/ MeRequest

\* a server whose first account has two programs and whose second has one
ApiInit ==
  /\ SeededInit
  /\ \A seeded \in SeedPrograms : Cardinality(seeded) <= Cardinality(programs)

SpecApi == ApiInit /\ [][ApiNext]_vars

----------------------------------------------------------------------------
(* Client: the auth context (useAuth) and the form hooks (useAuthForm) *)

\* what fetch and response.json() give the caller
Fetched(ok, success, error) ==
  [kind |-> "fetched", ok |-> ok, success |-> success, error |-> error]

\* fetch or response.json() throws
FetchThrew == [kind |-> "threw"]

\* a success, an error of the endpoint, a failure body without error, a
\* network failure
FetchOutcomes ==
  {Fetched(TRUE, TRUE, Absent), Fetched(FALSE, FALSE, "Invalid email or password"),
   Fetched(FALSE, FALSE, Absent), FetchThrew}

FetchedUser == [kind |-> "user"]

\* null, where the other values are strings
NoMessage == "(null)"

\* { success: true }
Success == [success |-> TRUE, error |-> Absent]

\* { success: false, error }
Failure(error) == [success |-> FALSE, error |-> error]

\* { success: false }
BareFailure == [success |-> FALSE, error |-> Absent]

\* data.error || fallback
orElse(error, fallback) == IF error \in {Absent, ""} THEN fallback ELSE error

\* login and register of the auth context: the state they leave and the
\* result they return
signIn(state, outcome, fallback) ==
  IF outcome.kind = "threw"
    THEN [state |-> [state EXCEPT !.isLoading = FALSE],
          value |-> Failure("Network error. Please try again.")]
  ELSE IF outcome.ok /\ outcome.success
    THEN [state |-> [user |-> FetchedUser, isLoading |-> FALSE,
                     isAuthenticated |-> TRUE],
          value |-> Success]
  ELSE [state |-> [state EXCEPT !.isLoading = FALSE],
        value |-> Failure(orElse(outcome.error, fallback))]

ctxLogin(state, outcome) == signIn(state, outcome, "Login failed")

ctxRegister(state, outcome) == signIn(state, outcome, "Registration failed")

\* updateUser of the auth context
updateUser(state, outcome) ==
  IF outcome.kind = "threw"
    THEN [state |-> state, value |-> Failure("Network error. Please try again.")]
  ELSE IF outcome.ok /\ outcome.success
    THEN [state |-> [state EXCEPT !.user = FetchedUser], value |-> Success]
  ELSE [state |-> state, value |-> Failure(orElse(outcome.error, "Update failed"))]

\* /^[^\s@]+@[^\s@]+\.[^\s@]+$/.test(email)
validateEmail(email) ==
  /\ Cardinality(indexesOf(email, "@")) = 1
  /\ indexesOf(email, " ") = {}
  /\ LET at     == CHOOSE i \in indexesOf(email, "@") : TRUE
         domain == SubSeq(email, at + 1, Len(email))
     IN  /\ at > 1
         /\ \E i \in indexesOf(domain, ".") : 1 < i /\ i < Len(domain)

\* validatePassword: the message, or null
validatePassword(password) ==
  IF Len(password) < 8
    THEN "Password must be at least 8 characters long"
  ELSE IF ~ /\ \E i \in 1..Len(password) : charAt(password, i) \in CharsOf(LowerChars)
            /\ \E i \in 1..Len(password) : charAt(password, i) \in CharsOf(UpperChars)
            /\ \E i \in 1..Len(password) : charAt(password, i) \in CharsOf(Digits)
    THEN "Password must contain at least one uppercase letter, one lowercase letter, and one number"
  ELSE NoMessage

\* setFormState({ isLoading: false, error, success: false })
FormError(error) == [isLoading |-> FALSE, error |-> error, success |-> FALSE]

FormSuccess == [isLoading |-> FALSE, error |-> NoMessage, success |-> TRUE]

\* the form hook after the call of the auth context returned
formAfter(state, called, fallback) ==
  IF called.value.success
    THEN [state |-> called.state, form |-> FormSuccess, value |-> Success]
  ELSE [state |-> called.state,
        form |-> FormError(orElse(called.value.error, fallback)),
        value |-> [success |-> FALSE, error |-> called.value.error]]

\* a validation of the form hook failed
formRejected(state, error) ==
  [state |-> state, form |-> FormError(error), value |-> BareFailure]

LoginForm(email, password) == [email |-> email, password |-> password]

LoginForms ==
  {LoginForm("a@b.com", ""), LoginForm("nope", "Secret12"),
   LoginForm("a@b.com", "Secret12")}

handleLogin(state, formData, outcome) ==
  IF formData.email = "" \/ formData.password = ""
    THEN formRejected(state, "Email and password are required")
  ELSE IF ~validateEmail(formData.email)
    THEN formRejected(state, "Please enter a valid email address")
  ELSE formAfter(state, ctxLogin([state EXCEPT !.isLoading = TRUE], outcome),
                 "Login failed")

RegisterForms ==
  {RegisterBody("a@b.com", "Secret12", "Al", ""),
   RegisterBody("", "Secret12", "Al", ""),
   RegisterBody("a b@c.com", "Secret12", "Al", ""),
   RegisterBody("a@b.com", "secret1", "Al", ""),
   RegisterBody("a@b.com", "secretsecret", "Al", ""),
   RegisterBody("a@b.com", "Secret12", "Al", "Secret13"),
   RegisterBody("a@b.com", "Secret12", "A ", "")}

handleRegister(state, formData, outcome) ==
  IF formData.email = "" \/ formData.password = "" \/ formData.name = ""
    THEN formRejected(state, "All fields are required")
  ELSE IF ~validateEmail(formData.email)
    THEN formRejected(state, "Please enter a valid email address")
  ELSE IF validatePassword(formData.password) # NoMessage
    THEN formRejected(state, validatePassword(formData.password))
  ELSE IF formData.confirmPassword # "" /\ formData.password # formData.confirmPassword
    THEN formRejected(state, "Passwords do not match")
  ELSE IF Len(trim(formData.name)) < 2
    THEN formRejected(state, "Name must be at least 2 characters long")
  ELSE formAfter(state, ctxRegister([state EXCEPT !.isLoading = TRUE], outcome),
                 "Registration failed")

\* the fitness data of the profile form; 0 stands for a field left empty
FitnessData(age, weight, height) ==
  [age |-> age, weight |-> weight, height |-> height]

FitnessForms ==
  {FitnessData(30, 70, 0), FitnessData(12, 70, 175),
   FitnessData(30, 301, 175), FitnessData(30, 70, 99)}

handleUpdateProfile(state, fitnessData, outcome) ==
  IF fitnessData.age # 0 /\ (fitnessData.age < 13 \/ fitnessData.age > 120)
    THEN formRejected(state, "Age must be between 13 and 120")
  ELSE IF fitnessData.weight # 0 /\ (fitnessData.weight < 30 \/ fitnessData.weight > 300)
    THEN formRejected(state, "Weight must be between 30 and 300 kg")
  ELSE IF fitnessData.height # 0 /\ (fitnessData.height < 100 \/ fitnessData.height > 250)
    THEN formRejected(state, "Height must be between 100 and 250 cm")
  ELSE formAfter(state, updateUser(state, outcome), "Profile update failed")

\* what the model records of a call
CallResult(call, value) ==
  [kind |-> "result", call |-> call, value |-> value]

\* the call changes the context's state and returns
Called(call, called) ==
  /\ authState' = called.state
  /\ returned' = CallResult(call, called.value)

\* the handler changes the state of its form, too
FormSet(form, handled) ==
  formState' = [formState EXCEPT ![form] = handled.form]

\* a component calls login of the auth context
CallLogin ==
  \E formData \in LoginForms, outcome \in FetchOutcomes :
    /\ Called("login",
              ctxLogin([authState EXCEPT !.isLoading = TRUE], outcome))
    /\ UNCHANGED <<formState, notClient>>

CallRegister ==
  \E formData \in RegisterForms, outcome \in FetchOutcomes :
    /\ Called("register",
              ctxRegister([authState EXCEPT !.isLoading = TRUE], outcome))
    /\ UNCHANGED <<formState, notClient>>

CallUpdateUser ==
  \E fitnessData \in FitnessForms, outcome \in FetchOutcomes :
    /\ Called("updateUser", updateUser(authState, outcome))
    /\ UNCHANGED <<formState, notClient>>

\* the login form is submitted
HandleLogin ==
  \E formData \in LoginForms, outcome \in FetchOutcomes :
    LET handled == handleLogin(authState, formData, outcome)
    IN  /\ Called("handleLogin", handled)
        /\ FormSet("auth", handled)
        /\ UNCHANGED notClient

HandleRegister ==
  \E formData \in RegisterForms, outcome \in FetchOutcomes :
    LET handled == handleRegister(authState, formData, outcome)
    IN  /\ Called("handleRegister", handled)
        /\ FormSet("auth", handled)
        /\ UNCHANGED notClient

HandleUpdateProfile ==
  \E fitnessData \in FitnessForms, outcome \in FetchOutcomes :
    LET handled == handleUpdateProfile(authState, fitnessData, outcome)
    IN  /\ Called("handleUpdateProfile", handled)
        /\ FormSet("profile", handled)
        /\ UNCHANGED notClient

ClientNext ==
  \/ CallLogin \/ CallRegister \/ CallUpdateUser
  \/ HandleLogin \/ HandleRegister \/ HandleUpdateProfile

SpecClient == Init /\ [][ClientNext]_vars

----------------------------------------------------------------------------
(* AuthProvider with its calls in flight, and the guards withAuth and       *)
(* RequireAuth of a protected page                                          *)

\* checkAuthStatus after its fetch: response.ok decides
checkAuthStatus(outcome) ==
  IF outcome.kind = "fetched" /\ outcome.ok
    THEN [user |-> FetchedUser, isLoading |-> FALSE, isAuthenticated |-> TRUE]
  ELSE [user |-> null, isLoading |-> FALSE, isAuthenticated |-> FALSE]

SignedOut == [user |-> null, isLoading |-> FALSE, isAuthenticated |-> FALSE]

\* logout that leaves the state alone when its fetch throws
ctxLogout_nocatch(state, outcome) ==
  IF outcome.kind = "threw"
    THEN [state |-> [state EXCEPT !.isLoading = FALSE], pushed |-> <<>>]
  ELSE [state |-> SignedOut, pushed |-> <<"/">>]

\* logout after its fetch: the try and the catch set the same state and
\* push the same route
ctxLogout(state, outcome) ==
  IF outcome.kind = "threw"
    THEN [state |-> SignedOut, pushed |-> <<"/">>]
  ELSE [state |-> SignedOut, pushed |-> <<"/">>]

\* withAuth that does not wait for isLoading
withAuth_eager(state) ==
  IF ~state.isAuthenticated THEN "null" ELSE "WrappedComponent"

\* what AuthenticatedComponent returns
withAuth(state) ==
  IF state.isLoading THEN "spinner"
  ELSE IF ~state.isAuthenticated THEN "null"
  ELSE "WrappedComponent"

\* what RequireAuth returns
RequireAuth(state, fallback) ==
  IF state.isLoading THEN "spinner"
  ELSE IF ~state.isAuthenticated
    THEN IF fallback THEN "fallback" ELSE "null"
  ELSE "children"

\* what the protected page shows
view ==
  [withAuth |-> withAuth(authState),
   RequireAuth |-> RequireAuth(authState, FALSE),
   RequireAuthWithFallback |-> RequireAuth(authState, TRUE)]

\* [isAuthenticated, isLoading] of the guards' useEffect
depsOf(state) == <<state.isAuthenticated, state.isLoading>>

\* the guards' effect: it runs when its dependencies changed
guardEffect(state, before) ==
  IF depsOf(state) # before /\ ~state.isLoading /\ ~state.isAuthenticated
    THEN <<"/auth/login">>
  ELSE <<>>

\* setAuthState, what the call pushed itself, then the render and its effect
Commit(state, pushed) ==
  /\ authState' = state
  /\ deps' = depsOf(state)
  /\ pushes' = pushed \o guardEffect(state, deps)

PendingCall(call, hadCookie) == [call |-> call, hadCookie |-> hadCookie]

\* what a request that needs the cookie can be answered
CookieOutcomes(hadCookie) ==
  IF hadCookie THEN FetchOutcomes
  ELSE {Fetched(FALSE, FALSE, "Authentication required"), FetchThrew}

\* a call begins: it awaits its fetch
Begin(call) ==
  /\ Cardinality(pending) < MaxPending
  /\ pending' = pending \cup {PendingCall(call, session)}
  /\ returned' = None
  /\ UNCHANGED <<session, notProvider>>

\* the page mounts: useState, and the effect that calls checkAuthStatus
MountedInit ==
  /\ GateInit /\ TokenInit /\ HashInit /\ AuthInit /\ ProgramInit /\ ClientInit
  /\ session \in BOOLEAN
  /\ pending = {PendingCall("checkAuthStatus", session)}
  /\ deps = <<FALSE, TRUE>>
  /\ pushes = <<>>

\* refreshUser is called
RefreshUserBegin ==
  /\ Commit([authState EXCEPT !.isLoading = TRUE], <<>>)
  /\ Begin("refreshUser")

\* the fetch of checkAuthStatus, called on mount or by refreshUser, ends
CheckAuthStatusEnd ==
  \E p \in pending : \E outcome \in CookieOutcomes(p.hadCookie) :
    /\ p.call \in {"checkAuthStatus", "refreshUser"}
    /\ Commit(checkAuthStatus(outcome), <<>>)
    /\ pending' = pending \ {p}
    /\ returned' = CallResult(p.call, Absent)
    /\ UNCHANGED <<session, notProvider>>

LoginBegin ==
  /\ Commit([authState EXCEPT !.isLoading = TRUE], <<>>)
  /\ Begin("login")

SignUpBegin ==
  /\ Commit([authState EXCEPT !.isLoading = TRUE], <<>>)
  /\ Begin("register")

\* the fetch of login or register ends; a success sets the cookie
SignInEnd ==
  \E p \in pending, outcome \in FetchOutcomes :
    /\ p.call \in {"login", "register"}
    /\ LET called == IF p.call = "login" THEN ctxLogin(authState, outcome)
                     ELSE ctxRegister(authState, outcome)
       IN  /\ Commit(called.state, <<>>)
           /\ returned' = CallResult(p.call, called.value)
           /\ session' = (called.value.success \/ session)
    /\ pending' = pending \ {p}
    /\ UNCHANGED notProvider

LogoutBegin ==
  /\ Commit([authState EXCEPT !.isLoading = TRUE], <<>>)
  /\ Begin("logout")

\* the fetch of logout ends; a response clears the cookie
LogoutEnd ==
  \E p \in pending, outcome \in {Fetched(TRUE, TRUE, Absent), FetchThrew} :
    /\ p.call = "logout"
    /\ LET called == ctxLogout(authState, outcome)
       IN  Commit(called.state, called.pushed)
    /\ returned' = CallResult("logout", Absent)
    /\ session' = (session /\ outcome.kind = "threw")
    /\ pending' = pending \ {p}
    /\ UNCHANGED notProvider

\* updateUser is called; it sets no state before its fetch
UpdateUserBegin ==
  /\ Begin("updateUser")
  /\ UNCHANGED <<authState, deps, pushes>>

UpdateUserEnd ==
  \E p \in pending : \E outcome \in CookieOutcomes(p.hadCookie) :
    /\ p.call = "updateUser"
    /\ LET called == updateUser(authState, outcome)
       IN  /\ Commit(called.state, <<>>)
           /\ returned' = CallResult("updateUser", called.value)
    /\ pending' = pending \ {p}
    /\ UNCHANGED <<session, notProvider>>

ProviderNext ==
  \/ RefreshUserBegin \/ CheckAuthStatusEnd
  \/ LoginBegin \/ SignUpBegin \/ SignInEnd
  \/ LogoutBegin \/ LogoutEnd
  \/ UpdateUserBegin \/ UpdateUserEnd

SpecProvider == MountedInit /\ [][ProviderNext]_vars

----------------------------------------------------------------------------
(* Vocabulary of the properties *)

Handled == req # None

HasPrefix(pathname, prefixes) == \E r \in prefixes : startsWith(pathname, r)

ApiPrefixes == {"/api/programs", "/api/ai", "/api/user"}

BrowserPrefixes == {"/profile", "/generate-program"}

AuthPages == {"/auth/login", "/auth/register"}

\* the request carries a token and jwt.verify accepted it on arrival
TokenAccepted ==
  /\ truthy(req.cookie)
  /\ ~jwt_verify(req.cookie, JWT_SECRET, req.at).threw

\* the request carries a token and jwt.verify refused it on arrival
TokenRejected ==
  /\ truthy(req.cookie)
  /\ jwt_verify(req.cookie, JWT_SECRET, req.at).threw

Forwarded == res.kind = "next"

Is401(error) == res.kind = "json" /\ res.status = 401 /\ res.body = error

IsLoginRedirect == res.kind = "redirect" /\ res.location = "/auth/login"

----------------------------------------------------------------------------
(* Properties *)

\* C1: a request under a protect-list prefix is forwarded only if its
\* auth-token cookie is present and verifyToken accepts it; otherwise the
\* middleware answers 401 or a redirect and does not forward.
C1_ForwardOnlyWithValidToken ==
  (Handled /\ HasPrefix(req.pathname, ApiPrefixes \cup BrowserPrefixes)) =>
    IF TokenAccepted
      THEN TRUE
      ELSE ~Forwarded /\ (IsLoginRedirect \/ (res.kind = "json" /\ res.status = 401))

\* C2: a request to a protected API path without auth-token cookie gets
\* 401 {"error": "Authentication required"} and is not forwarded.
C2_ApiNoCookie401 ==
  (Handled /\ HasPrefix(req.pathname, ApiPrefixes) /\ req.cookie = NoCookie) =>
    Is401("Authentication required") /\ ~Forwarded

\* C3: a request to a protected browser path without auth-token cookie is
\* redirected to /auth/login?callbackUrl=<original path>.
C3_BrowserNoCookieRedirect ==
  (Handled /\ HasPrefix(req.pathname, BrowserPrefixes) /\ req.cookie = NoCookie) =>
    IsLoginRedirect /\ res.query.callbackUrl = req.pathname

\* C4: a request to a protected API path whose token verifyToken rejects
\* gets 401 {"error": "Invalid or expired token"}.
C4_ApiBadToken401 ==
  (Handled /\ HasPrefix(req.pathname, ApiPrefixes) /\ TokenRejected) =>
    Is401("Invalid or expired token")

\* C5: a request to a protected browser path whose token verifyToken rejects
\* is redirected to the login page by a response that deletes the cookie.
C5_BrowserBadTokenClearsCookie ==
  (Handled /\ HasPrefix(req.pathname, BrowserPrefixes) /\ TokenRejected) =>
    IsLoginRedirect /\ res.deleteCookie

\* C6: a request to a protected API path with an accepted token is forwarded
\* with x-user-id, x-user-email and x-user-name set to the token's claims.
C6_ApiIdentityHeaders ==
  (Handled /\ HasPrefix(req.pathname, ApiPrefixes) /\ TokenAccepted) =>
    /\ Forwarded
    /\ res.requestHeaders["x-user-id"] = req.cookie.payload.userId
    /\ res.requestHeaders["x-user-email"] = req.cookie.payload.email
    /\ res.requestHeaders["x-user-name"] = req.cookie.payload.name

\* C7: a request to a login or registration page with an accepted token is
\* redirected to /profile and not forwarded.
C7_AuthPageRedirectsToProfile ==
  (Handled /\ req.pathname \in AuthPages /\ TokenAccepted) =>
    res.kind = "redirect" /\ res.location = "/profile"

\* a request that reached the classification and was classified public
ClassifiedPublic ==
  /\ Handled
  /\ ~isStaticOrInternal(req.pathname)
  /\ isPublicRoute(req.pathname) \/ req.pathname = "/api/auth/me"

C9_LoginRedirectCarriesCallback ==
  (Handled /\ HasPrefix(req.pathname, BrowserPrefixes) /\ ~TokenAccepted) =>
    IsLoginRedirect /\ res.query.callbackUrl = req.pathname

\* malformed, signed with another secret, or expired at time t
BadToken(token, t) ==
  \/ token.kind # "jwt"
  \/ token.key # JWT_SECRET
  \/ t >= token.payload.exp

\* C10: verifyToken never throws and returns null for a malformed, forged or
\* expired token, and the middleware answers every request with a forward, a
\* 401 or a redirect, never with an unhandled exception.
C10_NoThrow ==
  /\ verified # None =>
       /\ ~verified.result.threw
       /\ BadToken(verified.token, verified.at) => verified.result.value = null
  /\ Handled => res.kind \in {"next", "json", "redirect"}

\* an expired token with a good signature was verified and gave null
C10_Witness ==
  /\ verified # None
  /\ verified.token.kind = "jwt"
  /\ verified.token.key = JWT_SECRET
  /\ verified.at >= verified.token.payload.exp
  /\ verified.result = [threw |-> FALSE, value |-> null]
  /\ res.kind = "next"

----------------------------------------------------------------------------
(* Properties of the token codec *)

Accepted(result) == ~result.threw /\ result.value # null

\* C11 as stated: a token issued at time t is accepted at every time before
\* t + 7 days and rejected at every time from t + 7 days on.
C11_SevenDaysFromIssue ==
  checked # None =>
    (Accepted(checked.result) <=> checked.at < issued.at + SevenDaysMs)

\* C11, amended: a token issued at time t is accepted exactly at the times
\* whose whole-second reading is before the whole-second reading of t plus
\* 7 days; so it is rejected from t + 7 days on, and accepted at every time
\* up to one second before that.
C11_SevenDaysOfWholeSeconds ==
  checked # None =>
    /\ Accepted(checked.result) <=>
         NumericDate(checked.at) < NumericDate(issued.at) + 7 * 24 * 60 * 60
    /\ checked.at >= issued.at + SevenDaysMs => ~Accepted(checked.result)
    /\ checked.at + 1000 <= issued.at + SevenDaysMs => Accepted(checked.result)

\* a token issued in the middle of a second was refused half a second before
\* its seven days were over
C11_Witness ==
  /\ checked # None
  /\ issued.at = 500
  /\ checked.at = SevenDaysMs
  /\ ~Accepted(checked.result)

\* C12: verifyToken(generateToken(c)), evaluated immediately after issuance,
\* returns the claims userId, email and name of c.
C12_RoundTrip ==
  (checked # None /\ checked.at = issued.at) =>
    /\ Accepted(checked.result)
    /\ checked.result.value.userId = issued.claims.userId
    /\ checked.result.value.email = issued.claims.email
    /\ checked.result.value.name = issued.claims.name

\* a token was verified at the instant it was issued
C12_Witness ==
  /\ checked # None
  /\ checked.at = issued.at
  /\ issued.claims = [userId |-> "u2", email |-> "c@d.org", name |-> "Al"]
  /\ Accepted(checked.result)

----------------------------------------------------------------------------
(* Properties of the credential hasher *)

\* C19: for all passwords p and q, comparePassword(p, hashPassword(q)) is
\* true exactly when p = q.
C19_CompareIffEqual ==
  compared # None => (compared.result <=> compared.password = compared.hashedOf)

----------------------------------------------------------------------------
(* Properties of the auth endpoints *)

Answered(endpoint) == resp # None /\ resp.endpoint = endpoint

\* the token is well formed, signed by the server and not expired at time t
LiveToken(token, t) ==
  IF token.kind # "jwt" THEN FALSE
  ELSE token.key = JWT_SECRET /\ t < token.payload.exp

\* C13: the result of verifying a token depends on the token, the secret and
\* the time only, whatever requests the server has handled before; a token
\* that was logged out is accepted until it expires.
C13_VerificationIgnoresHistory ==
  (Answered("me") /\ truthy(resp.cookie)) =>
    /\ (resp.decoded # null) <=> LiveToken(resp.cookie, resp.at)
    /\ resp.decoded # null => resp.decoded = resp.cookie.payload

\* after logout, the cookie that was logged out was sent again and accepted
C13_Witness ==
  /\ Answered("me")
  /\ loggedOut
  /\ resp.cookie = jar
  /\ resp.decoded # null
  /\ resp.response.status = 200

\* the fields of the registration request as C14 states them
StatedValid(body) ==
  /\ emailRegex_test(body.email)
  /\ Len(body.password) >= 6
  /\ Len(body.name) >= 2
  /\ Len(body.name) <= 50

\* ... and as the handler requires them
TrimmedValid(body) ==
  /\ StatedValid(body)
  /\ Len(trim(body.name)) >= 2
  /\ body.confirmPassword = "" \/ body.confirmPassword = body.password

\* 201, a cookie whose token verifies and carries the identity of the account
\* created, and no password in the body
Registered201 ==
  /\ resp.response.status = 201
  /\ resp.created
  /\ LiveToken(resp.response.setCookie, resp.at)
  /\ \E u \in users :
       /\ u.id = resp.response.setCookie.payload.userId
       /\ u.email = resp.response.setCookie.payload.email
       /\ u.name = resp.response.setCookie.payload.name
       /\ u.email = toLowerCase(resp.body.email)
       /\ u.name = trim(resp.body.name)
  /\ "password" \notin resp.response.userFields

\* C14 as stated: a registration with a well-formed e-mail that is not yet
\* registered, a password of at least 6 characters and a name of 2 to 50
\* characters gets 201, a cookie with a valid token of the new account and a
\* body without password.
C14_RegisterStated ==
  (Answered("register") /\ StatedValid(resp.body) /\ ~resp.heldBefore) =>
    Registered201

\* C14, amended: the same, for a name whose trimmed length is at least 2 and
\* a confirmPassword that is absent or equal to the password, the e-mail
\* being unregistered when the account is saved.
C14_RegisterTrimmed ==
  (Answered("register") /\ TrimmedValid(resp.body) /\ ~resp.heldBefore) =>
    Registered201

\* an upper-case e-mail and a padded name were registered
C14_Witness ==
  /\ Answered("register")
  /\ resp.body.email = "A@B.com"
  /\ resp.body.name = " Al "
  /\ resp.response.status = 201
  /\ resp.response.setCookie.payload.email = "a@b.com"
  /\ resp.response.setCookie.payload.name = "Al"

\* no two accounts hold the same e-mail, compared case-insensitively
UniqueEmails ==
  \A u \in users, v \in users :
    u.id # v.id => toLowerCase(u.email) # toLowerCase(v.email)

C16_PasswordsHashed ==
  /\ \A u \in users : u.password.kind = "bcrypt"
  /\ (Answered("register") /\ resp.response.status = 201) =>
       \E u \in users :
         /\ u.id = resp.response.setCookie.payload.userId
         /\ u.password.rounds = 12
         /\ u.password.digest # resp.body.password
         /\ bcrypt_compare(resp.body.password, u.password)

\* a second account was created
C16_Witness ==
  /\ Answered("register")
  /\ resp.response.status = 201
  /\ resp.body.password = "secret1"
  /\ Cardinality(users) = 2

\* the collections that differ from store only in whether email has an account
Flipped(store, email) ==
  IF held(store, email)
    THEN {store \ findByEmail(store, toLowerCase(email))}
    ELSE {store \cup {[id |-> "other", email |-> toLowerCase(email),
                       password |-> hashPassword(p, "salt1"), name |-> "Al"]} :
            p \in {"secret1", "secret2"}}

\* the response of the endpoint to the same request on another collection
ResponseOn(store) ==
  IF resp.endpoint = "login"
    THEN login(store, resp.body, resp.at)
    ELSE registerCheck(store, resp.body)

\* C17: no failure response of login or registration tells whether the
\* e-mail submitted is registered: the same request gets the same status and
\* error on a collection that differs only in whether that e-mail has an
\* account.
C17_FailuresDoNotTell ==
  ((Answered("register") \/ Answered("login")) /\ ~resp.response.success) =>
    \E other \in Flipped(users, resp.body.email) :
      ResponseOn(other) = resp.response

\* the request has the token of an account and the fields the handler asks
ValidProgramPost ==
  /\ Answered("programs")
  /\ resp.decoded # null
  /\ findById(users, resp.decoded.userId) # {}
  /\ resp.body.name # ""
  /\ resp.body.workoutPlan # ""
  /\ resp.body.nutritionPlan # ""

C20_ResultsCarryError ==
  returned # None =>
    \/ returned.value = Success
    \/ /\ ~returned.value.success
       /\ returned.value.error \notin {Absent, ""}

----------------------------------------------------------------------------
(* Properties of AuthProvider and its guards *)

\* a guard shows the protected content
ShowsContent(shown) ==
  \/ shown.withAuth = "WrappedComponent"
  \/ shown.RequireAuth = "children"
  \/ shown.RequireAuthWithFallback = "children"

Unauthenticated(state) == ~state.isLoading /\ ~state.isAuthenticated

Pushed(route) == \E i \in 1..Len(pushes) : pushes[i] = route

LastCall(call) == returned # None /\ returned.call = call

\* C21: withAuth and RequireAuth show the protected content only when
\* isLoading is false and isAuthenticated is true; when the state becomes
\* isLoading false and isAuthenticated false they show none of it and
\* router.push('/auth/login') is called.
C21_GuardsProtectContent ==
  [][/\ ShowsContent(view)' =>
          ~authState'.isLoading /\ authState'.isAuthenticated
     /\ Unauthenticated(authState') =>
          /\ ~ShowsContent(view)'
          /\ ~Unauthenticated(authState) => Pushed("/auth/login")']_vars

\* the check on mount found no session: the guards show nothing and the
\* login page was pushed
C21_Witness ==
  /\ LastCall("checkAuthStatus")
  /\ Unauthenticated(authState)
  /\ view.withAuth = "null"
  /\ view.RequireAuthWithFallback = "fallback"
  /\ pushes = <<"/auth/login">>

\* C22: when logout completes, user is null, isAuthenticated and isLoading
\* are false and router.push('/') was called, whether the request succeeded
\* or threw.
C22_LogoutAlwaysSignsOut ==
  LastCall("logout") =>
    /\ authState.user = null
    /\ ~authState.isAuthenticated
    /\ ~authState.isLoading
    /\ Pushed("/")

\* a logout whose request threw: the cookie is still there
C22_Witness ==
  /\ LastCall("logout")
  /\ session
  /\ authState = SignedOut
  /\ pushes[1] = "/"

\* C24: under any interleaving of the completions of checkAuthStatus,
\* login, register, logout, updateUser and refreshUser, isAuthenticated is
\* true exactly when user is not null.
C24_AuthenticatedIffUser ==
  authState.isAuthenticated <=> authState.user # null

\* C25: after login or register resolved with success, and without a logout,
\* the completion of a call that was started earlier does not reset user to
\* null.
C25_SignInSurvivesLateCheck ==
  [][(/\ LastCall("login") \/ LastCall("register")
      /\ returned.value.success
      /\ \A p \in pending' : p.call # "logout")
     => authState'.user # null]_vars

----------------------------------------------------------------------------
(* Properties of the program and AI routes *)

\* no request is between two of its awaits
AllCompleted == \A slot \in Slots : inflight[slot] = None

\* the programs of a user whose isActive is true
ActivePrograms(userId) ==
  {p \in programs : p.userId = userId /\ isActive(p, clock)}

\* C23: under any interleaving of concurrent POST /api/programs requests
\* and PUT /api/programs/[id] requests with isActive = true by the same
\* user, once all requests have completed that user has at most one active
\* program.
C23_AtMostOneActive ==
  AllCompleted => \A userId \in UserIds : Cardinality(ActivePrograms(userId)) <= 1

\* a PUT with isActive = true was the last request to complete, it was
\* answered 200, and its user has an active program
C23_Witness ==
  /\ AllCompleted
  /\ Answered("program-put")
  /\ resp.body.isActive = "true"
  /\ resp.response.status = 200
  /\ Cardinality(programFind(programs, resp.body.id, resp.decoded.userId)) = 1
  /\ Cardinality(ActivePrograms(resp.decoded.userId)) = 1
  /\ \E p \in programs : p.userId = resp.decoded.userId /\ ~isActive(p, clock)

\* the program a request names: the id of /api/programs/[id], the
\* saveToProgramId of a nutrition request that reached its save
Target(sent) ==
  IF sent.endpoint \in {"program-get", "program-put", "program-delete"}
    THEN sent.body.id
  ELSE IF sent.endpoint = "nutrition" /\ "programs" \in queried'
    THEN sent.body.body.saveToProgramId
  ELSE Absent

\* the request was made with a token of userId and names a program that
\* another user owns
NamesProgramOfAnother(sent) ==
  /\ sent # None
  /\ sent.decoded # null
  /\ \E p \in programs : p.id = Target(sent) /\ p.userId # sent.decoded.userId

GuardedEndpoints ==
  {"programs", "programs-get", "program-get", "program-put", "program-delete",
   "workout", "workout-get", "me"}

\* the request came to one of these endpoints without an auth-token cookie,
\* or with one that verifyToken rejected
NoToken(sent) ==
  /\ sent # None
  /\ sent.endpoint \in GuardedEndpoints
  /\ ~truthy(sent.cookie) \/ sent.decoded = null

\* the step read and wrote no user and no program record
NoRecordTouched ==
  /\ queried' = {}
  /\ UNCHANGED <<users, programs, userPrograms>>

\* POST /api/ai/workout met a server without its OpenAI key and answered 503
Unconfigured(sent) ==
  /\ sent.endpoint = "workout"
  /\ ~sent.body.configured
  /\ sent.response.status = 503

\* C27 as stated: every handler of /api/programs, /api/programs/[id],
\* /api/ai/workout and /api/auth/me answers 401 and performs no read or
\* write of any user or program record when the auth-token cookie is absent
\* or verifyToken rejects the token.
C27_Always401 ==
  [][NoToken(resp') => resp'.response.status = 401 /\ NoRecordTouched]_vars

\* C27, amended: when the auth-token cookie is absent or verifyToken
\* rejects the token, every handler of /api/programs, /api/programs/[id],
\* /api/ai/workout and /api/auth/me performs no read or write of any user
\* or program record, and answers 401, or 503 where it is POST
\* /api/ai/workout and the AI service is not configured.
C27_RejectedUntouched ==
  [][NoToken(resp') =>
       /\ resp'.response.status = 401 \/ Unconfigured(resp')
       /\ NoRecordTouched]_vars

\* a DELETE that names a stored program with a token that verifyToken
\* rejects was answered 401
C27_Witness ==
  /\ Answered("program-delete")
  /\ truthy(resp.cookie)
  /\ resp.decoded = null
  /\ resp.response.status = 401
  /\ queried = {}
  /\ \E p \in programs : p.id = resp.body.id

====
